---- MODULE Spec2Model ----
(***************************************************************************)
(* AudioRecorder (frontend/scripts/audio-recorder.js): the continuous      *)
(* chunked-capture scheduler.  The recorder's fields, the browser timers   *)
(* it creates (setInterval / setTimeout), the MediaRecorder objects it     *)
(* drives and the 'stop' events they queue are the state; every public     *)
(* method, timer callback and event handler is one action.                 *)
(*                                                                         *)
(* Methods are written as operators from a state record to a state record  *)
(* so that a method calling another (setIntervalDuration -> stopRecording, *)
(* cleanup -> stopRecording, the restart timer -> startRecording) is the   *)
(* composition the code performs.                                          *)
(*                                                                         *)
(* TemperatureManager (the reading aggregator): its fields, localStorage,  *)
(* the wall clock and the periodic cleanup timer, modelled the same way.   *)
(* Time is counted in minutes and confidence in tenths.                    *)
(***************************************************************************)
EXTENDS Integers, Sequences, FiniteSets, TLC

\* ---------------------------------------------------------------- bounds
MaxAcquire == 2       \* getUserMedia requests issued in one behaviour
MaxTimeouts == 2      \* setTimeout timers pending at the same time
MaxChunks == 3        \* chunk recordings started in one behaviour
MaxTime == 25000      \* horizon of the simulated clock (ms)
MaxReadings == 2      \* readings held in temperatureHistory at one time
MaxClock == 20        \* horizon of the aggregator's wall clock (minutes)
MaxAddClock == 10     \* latest time at which a reading is accepted (minutes)
MaxTrendReadings == 4 \* readings in a history getTrend is applied to
TrendClock == 10      \* the time at which getTrend is applied (minutes)

\* ------------------------------------------------------ program constants
DefaultIntervalDuration == 20000
minDuration == 10000
maxDuration == 60000
SettleDelay == 100
RestartDelay == 200
DefaultDecayWindow == 15     \* minutes
DefaultSensitivity == 5
SweepPeriod == 5             \* minutes between two periodic cleanups
SilenceConfidence == 4       \* 0.4, in tenths
SilenceTemperature == 25
MinValidConfidence == 3      \* 0.3, in tenths
ErrorTemperature == 30       \* the reading injected when the analysis fails
ErrorConfidence == 1         \* 0.1, in tenths
TrendMinutes == 5            \* the look-back of getTrend, in minutes

\* Arguments the caller passes to setIntervalDuration: below the range,
\* inside it, above it.
DurationInputs == {minDuration \div 2, minDuration + DefaultIntervalDuration,
                   maxDuration + minDuration}

\* getUserMedia rejections initialize() distinguishes.
ErrorNames == {"NotAllowedError", "NotFoundError", "OtherError"}

\* The SettingsManager's defaults for the three tunable keys.
SettingsDefaults ==
    [recordingInterval |-> 20, temperatureSensitivity |-> 5,
     decayWindowMinutes |-> 15]

VARIABLES
    isRecording,        \* this.isRecording
    intervalDuration,   \* this.intervalDuration (ms)
    mediaRecorder,      \* this.mediaRecorder: 0 = null, else the recorder's id
    stream,             \* this.stream: 0 = null, else the stream's id
    recordingInterval,  \* this.recordingInterval: 0 = null, else a timer id
    onAudioReady,       \* this.onAudioReady is registered (not null)
    recorders,          \* state of every MediaRecorder created: id -> state
    liveTracks,         \* ids of the acquired streams whose tracks run
    acquired,           \* streams handed out by getUserMedia so far
    pendingInit,        \* initialize() calls awaiting getUserMedia
    intervalTimers,     \* active setInterval timers: [id, rem, period]
    timeouts,           \* pending setTimeout timers, in creation order
    stopEvents,         \* queued MediaRecorder 'stop' events (recorder ids)
    chunksStarted,      \* calls of MediaRecorder.start() that succeeded
    chunksEmitted,      \* blobs handed to onAudioReady
    chunksDropped,      \* blobs built by onstop with no onAudioReady to take them
    now,                \* simulated clock: ms since recording started
    callerStopped,      \* the caller's last start/stop call was stopRecording()
    lastOp,             \* the operation the last step performed
    temperatureHistory, \* this.temperatureHistory: the stored readings
    currentTemperature, \* this.currentTemperature
    averageTemperature, \* this.averageTemperature
    decayWindowMinutes, \* this.decayWindowMinutes
    sensitivity,        \* this.sensitivity
    localStorage,       \* the two keys the manager reads and writes
    clock,              \* Date.now(), in minutes since construction
    sweepRem,           \* minutes until the periodic cleanup timer fires
    notified,           \* what the last step passed to onTemperatureUpdate
    validAccepted,       \* addReading has accepted a reading with confidence >= 0.3
    settings,           \* SettingsManager.settings: the three tunable keys
    appSettings,        \* localStorage item 'app_settings'
    appIsRecording,     \* RoomTemperatureApp.isRecording
    isProcessing,       \* RoomTemperatureApp.isProcessing
    inFlight            \* analyze-audio requests awaiting their outcome

vars == <<isRecording, intervalDuration, mediaRecorder, stream,
          recordingInterval, onAudioReady, recorders, liveTracks, acquired,
          pendingInit, intervalTimers, timeouts, stopEvents, chunksStarted,
          chunksEmitted, chunksDropped, now, callerStopped, lastOp,
          temperatureHistory, currentTemperature, averageTemperature,
          decayWindowMinutes, sensitivity, localStorage, clock, sweepRem,
          notified, validAccepted, settings, appSettings, appIsRecording,
          isProcessing, inFlight>>

\* The recorder's variables (lastOp apart) and the aggregator's.
recVars == <<isRecording, intervalDuration, mediaRecorder, stream,
             recordingInterval, onAudioReady, recorders, liveTracks, acquired,
             pendingInit, intervalTimers, timeouts, stopEvents, chunksStarted,
             chunksEmitted, chunksDropped, now, callerStopped>>

aggVars == <<temperatureHistory, currentTemperature, averageTemperature,
             decayWindowMinutes, sensitivity, localStorage, clock, sweepRem,
             notified, validAccepted>>

\* The SettingsManager's variables.
setVars == <<settings, appSettings>>

\* The application's own state.
appVars == <<appIsRecording, isProcessing, inFlight>>

Ids == 1..(MaxAcquire + 1)

\* The recorder object and its browser environment as one record.
Cur ==
    [isRecording |-> isRecording, intervalDuration |-> intervalDuration,
     mediaRecorder |-> mediaRecorder, stream |-> stream,
     recordingInterval |-> recordingInterval, onAudioReady |-> onAudioReady,
     recorders |-> recorders, liveTracks |-> liveTracks,
     acquired |-> acquired, intervalTimers |-> intervalTimers,
     timeouts |-> timeouts, stopEvents |-> stopEvents,
     chunksStarted |-> chunksStarted, chunksEmitted |-> chunksEmitted,
     chunksDropped |-> chunksDropped, thrown |-> "none"]

Commit(s) ==
    /\ isRecording' = s.isRecording
    /\ intervalDuration' = s.intervalDuration
    /\ mediaRecorder' = s.mediaRecorder
    /\ stream' = s.stream
    /\ recordingInterval' = s.recordingInterval
    /\ onAudioReady' = s.onAudioReady
    /\ recorders' = s.recorders
    /\ liveTracks' = s.liveTracks
    /\ acquired' = s.acquired
    /\ intervalTimers' = s.intervalTimers
    /\ timeouts' = s.timeouts
    /\ stopEvents' = s.stopEvents
    /\ chunksStarted' = s.chunksStarted
    /\ chunksEmitted' = s.chunksEmitted
    /\ chunksDropped' = s.chunksDropped

Op(name, arg, result) == [op |-> name, arg |-> arg, result |-> result]

Min(a, b) == IF a <= b THEN a ELSE b
Max(a, b) == IF a >= b THEN a ELSE b

\* ------------------------------------------------------------ constructor
\* The recorder as RoomTemperatureApp._initializeComponents leaves it: built
\* by the constructor, its callbacks registered right after (app.js:110-126).
\* The TemperatureManager as its constructor leaves it over an empty
\* localStorage: nothing to load, the cleanup timer armed, and the listener
\* registered by the application (app.js:129).
Init ==
    /\ isRecording = FALSE
    /\ intervalDuration = DefaultIntervalDuration
    /\ mediaRecorder = 0
    /\ stream = 0
    /\ recordingInterval = 0
    /\ onAudioReady = TRUE
    /\ recorders = [i \in Ids |-> "inactive"]
    /\ liveTracks = {}
    /\ acquired = 0
    /\ pendingInit = <<>>
    /\ intervalTimers = {}
    /\ timeouts = <<>>
    /\ stopEvents = <<>>
    /\ chunksStarted = 0
    /\ chunksEmitted = 0
    /\ chunksDropped = 0
    /\ now = 0
    /\ callerStopped = FALSE
    /\ lastOp = Op("constructor", 0, "ok")
    /\ temperatureHistory = <<>>
    /\ currentTemperature = 0
    /\ averageTemperature = 0
    /\ decayWindowMinutes = DefaultDecayWindow
    /\ sensitivity = DefaultSensitivity
    /\ localStorage = [history |-> [present |-> FALSE, json |-> <<>>],
                       settings |-> [present |-> FALSE, json |-> <<>>]]
    /\ clock = 0
    /\ sweepRem = SweepPeriod
    /\ notified = <<>>
    /\ validAccepted = FALSE
    /\ settings = SettingsDefaults
    /\ appSettings = [present |-> FALSE, json |-> <<>>]
    /\ appIsRecording = FALSE
    /\ isProcessing = FALSE
    /\ inFlight = 0

\* ------------------------------------------------- the recorder's methods

\* _startRecordingChunk: MediaRecorder.start() when the recorder is inactive.
\* start() throws on a stream whose tracks have all ended; the method catches
\* the error and reports it through onError, and no chunk is started.
startRecordingChunk(s) ==
    IF s.mediaRecorder = 0 THEN s
    ELSE IF s.recorders[s.mediaRecorder] = "inactive"
         THEN IF s.mediaRecorder \in s.liveTracks
              THEN [s EXCEPT !.recorders[s.mediaRecorder] = "recording",
                             !.chunksStarted = @ + 1]
              ELSE s
         ELSE s

\* _stopRecordingChunk: MediaRecorder.stop() when the recorder is recording;
\* stop() makes the recorder inactive at once and queues its 'stop' event.
stopRecordingChunk(s) ==
    IF s.mediaRecorder = 0 THEN s
    ELSE IF s.recorders[s.mediaRecorder] = "recording"
         THEN [s EXCEPT !.recorders[s.mediaRecorder] = "inactive",
                        !.stopEvents = Append(@, s.mediaRecorder)]
         ELSE s

\* setInterval hands out an id no active timer uses.
NewTimerId(s) ==
    CHOOSE i \in 1..(Cardinality(s.intervalTimers) + 1) :
        /\ \A t \in s.intervalTimers : t.id # i
        /\ \A j \in 1..(i - 1) : \E t \in s.intervalTimers : t.id = j

\* startRecording without its "already recording" guard.
startRecording_noGuard(s) ==
    IF s.mediaRecorder = 0 THEN [s EXCEPT !.thrown = "not-initialized"]
    ELSE LET s1 == startRecordingChunk([s EXCEPT !.isRecording = TRUE])
             id == NewTimerId(s1)
         IN [s1 EXCEPT !.recordingInterval = id,
                       !.intervalTimers = @ \cup
                           {[id |-> id, rem |-> s1.intervalDuration,
                             period |-> s1.intervalDuration]}]

\* startRecording that leaves the first chunk to the first interval tick.
startRecording_lazy(s) ==
    IF s.isRecording THEN s
    ELSE IF s.mediaRecorder = 0 THEN [s EXCEPT !.thrown = "not-initialized"]
    ELSE LET s1 == [s EXCEPT !.isRecording = TRUE]
             id == NewTimerId(s1)
         IN [s1 EXCEPT !.recordingInterval = id,
                       !.intervalTimers = @ \cup
                           {[id |-> id, rem |-> s1.intervalDuration,
                             period |-> s1.intervalDuration]}]

startRecording(s) ==
    IF s.isRecording THEN s
    ELSE IF s.mediaRecorder = 0 THEN [s EXCEPT !.thrown = "not-initialized"]
    ELSE LET s1 == startRecordingChunk([s EXCEPT !.isRecording = TRUE])
             id == NewTimerId(s1)
         IN [s1 EXCEPT !.recordingInterval = id,
                       !.intervalTimers = @ \cup
                           {[id |-> id, rem |-> s1.intervalDuration,
                             period |-> s1.intervalDuration]}]

\* stopRecording that forgets clearInterval.
stopRecording_keepInterval(s) ==
    IF ~s.isRecording THEN s
    ELSE LET s1 == [s EXCEPT !.isRecording = FALSE]
         IN IF s1.mediaRecorder # 0 /\ s1.recorders[s1.mediaRecorder] = "recording"
            THEN stopRecordingChunk(s1)
            ELSE s1

stopRecording(s) ==
    IF ~s.isRecording THEN s
    ELSE LET s1 == [s EXCEPT !.isRecording = FALSE]
             s2 == IF s1.recordingInterval # 0
                   THEN [s1 EXCEPT !.intervalTimers =
                                     {t \in @ : t.id # s1.recordingInterval},
                                   !.recordingInterval = 0]
                   ELSE s1
         IN IF s2.mediaRecorder # 0 /\ s2.recorders[s2.mediaRecorder] = "recording"
            THEN stopRecordingChunk(s2)
            ELSE s2

\* The clamp without its lower limit.
ClampDuration_noMin(duration) == Min(maxDuration, duration)

ClampDuration(duration) == Max(minDuration, Min(maxDuration, duration))

setIntervalDuration(s, duration) ==
    LET s1 == [s EXCEPT !.intervalDuration = ClampDuration(duration)]
    IN IF s1.isRecording
       THEN [stopRecording(s1) EXCEPT
                !.timeouts = Append(@, [kind |-> "restart", rem |-> RestartDelay])]
       ELSE s1

\* cleanup that drops the stream reference without stopping its tracks.
cleanup_keepTracks(s) ==
    LET s1 == stopRecording(s)
    IN [s1 EXCEPT !.stream = 0, !.mediaRecorder = 0, !.onAudioReady = FALSE]

cleanup(s) ==
    LET s1 == stopRecording(s)
        s2 == IF s1.stream # 0
              THEN [s1 EXCEPT !.liveTracks = @ \ {s1.stream}, !.stream = 0]
              ELSE s1
    IN [s2 EXCEPT !.mediaRecorder = 0, !.onAudioReady = FALSE]

\* mediaRecorder.onstop: build the blob and hand it to onAudioReady if set.
\* onstop that hands the blob over twice.
onstop_twice(s) ==
    IF s.onAudioReady
    THEN [s EXCEPT !.chunksEmitted = @ + 2]
    ELSE [s EXCEPT !.chunksDropped = @ + 1]

onstop(s) ==
    IF s.onAudioReady
    THEN [s EXCEPT !.chunksEmitted = @ + 1]
    ELSE [s EXCEPT !.chunksDropped = @ + 1]

\* The setInterval callback of startRecording.
\* The interval callback without the stop of the current chunk.
intervalCallback_noStop(s) ==
    IF s.isRecording
    THEN [s EXCEPT
             !.timeouts = Append(@, [kind |-> "settle", rem |-> SettleDelay])]
    ELSE s

intervalCallback(s) ==
    IF s.isRecording
    THEN [stopRecordingChunk(s) EXCEPT
             !.timeouts = Append(@, [kind |-> "settle", rem |-> SettleDelay])]
    ELSE s

\* The settle-delay callback: start the next chunk if still recording.
\* The settle-delay callback without its isRecording test.
settleCallback_noGuard(s) == startRecordingChunk(s)

settleCallback(s) ==
    IF s.isRecording THEN startRecordingChunk(s) ELSE s

\* The restart callback of setIntervalDuration.
restartCallback(s) == startRecording(s)

\* initialize() after getUserMedia resolved: take the stream, build the recorder.
initializeResolved(s) ==
    LET id == s.acquired + 1
    IN [s EXCEPT !.acquired = id, !.liveTracks = @ \cup {id},
                 !.stream = id, !.mediaRecorder = id]

\* switchAudioDevice up to its await: refuse while recording, else stop the
\* tracks of the held stream and drop the reference; initialize() follows.
switchAudioDevice(s) ==
    IF s.isRecording THEN [s EXCEPT !.thrown = "recording"]
    ELSE IF s.stream # 0
         THEN [s EXCEPT !.liveTracks = @ \ {s.stream}, !.stream = 0]
         ELSE s

\* ----------------------------------------------------------------- timers
Delay(kind) == IF kind = "settle" THEN SettleDelay ELSE RestartDelay

Rems == {t.rem : t \in intervalTimers} \cup
        {timeouts[i].rem : i \in 1..Len(timeouts)}

NextDue == CHOOSE r \in Rems : \A q \in Rems : r <= q

AdvanceTimers(d) ==
    /\ intervalTimers' = {[t EXCEPT !.rem = @ - d] : t \in intervalTimers}
    /\ timeouts' = [i \in 1..Len(timeouts) |-> [timeouts[i] EXCEPT !.rem = @ - d]]

\* A due timeout runs once every timeout created before it with a delay not
\* longer than its own has run.
CanFire(i) ==
    /\ timeouts[i].rem = 0
    /\ \A j \in 1..(i - 1) : Delay(timeouts[j].kind) > Delay(timeouts[i].kind)

RemoveAt(seq, i) == SubSeq(seq, 1, i - 1) \o SubSeq(seq, i + 1, Len(seq))

\* Would the operation start a chunk beyond the bound?
WithinChunks(s) == s.chunksStarted <= MaxChunks

\* ---------------------------------------------------------------- actions
CallInitialize ==
    /\ UNCHANGED <<aggVars, setVars, appVars>>
    /\ acquired + Len(pendingInit) < MaxAcquire
    /\ pendingInit' = Append(pendingInit, stream # 0)
    /\ lastOp' = Op("initialize", 0, "pending")
    /\ UNCHANGED <<isRecording, intervalDuration, mediaRecorder, stream,
                   recordingInterval, onAudioReady, recorders, liveTracks,
                   acquired, intervalTimers, timeouts, stopEvents,
                   chunksStarted, chunksEmitted, chunksDropped, now,
                   callerStopped>>

InitializeResolve ==
    /\ UNCHANGED <<aggVars, setVars, appVars>>
    /\ \E i \in 1..Len(pendingInit) :
           /\ Commit(initializeResolved(Cur))
           /\ pendingInit' = RemoveAt(pendingInit, i)
           /\ lastOp' = Op("initialize", IF pendingInit[i] THEN 1 ELSE 0, "ok")
           /\ UNCHANGED <<now, callerStopped>>

InitializeReject ==
    /\ UNCHANGED <<aggVars, setVars, appVars>>
    /\ \E i \in 1..Len(pendingInit), e \in ErrorNames :
           /\ pendingInit' = RemoveAt(pendingInit, i)
           /\ lastOp' = Op("initialize", IF pendingInit[i] THEN 1 ELSE 0, e)
           /\ UNCHANGED <<isRecording, intervalDuration, mediaRecorder, stream,
                          recordingInterval, onAudioReady, recorders, liveTracks,
                          acquired, intervalTimers, timeouts, stopEvents,
                          chunksStarted, chunksEmitted, chunksDropped, now,
                          callerStopped>>

CallSwitchAudioDevice ==
    /\ UNCHANGED <<aggVars, setVars, appVars>>
    /\ LET s == switchAudioDevice(Cur)
       IN /\ acquired + Len(pendingInit) < MaxAcquire
          /\ Commit(s)
          /\ pendingInit' = IF s.thrown = "none"
                            THEN Append(pendingInit, FALSE) ELSE pendingInit
          /\ lastOp' = Op("switchAudioDevice", 0,
                          IF s.thrown = "none" THEN "pending" ELSE s.thrown)
          /\ UNCHANGED <<now, callerStopped>>

CallStartRecording ==
    /\ UNCHANGED <<aggVars, setVars, appVars>>
    /\ LET s == startRecording(Cur)
       IN /\ WithinChunks(s)
          /\ Commit(s)
          /\ callerStopped' = FALSE
          /\ lastOp' = Op("startRecording", 0,
                          IF s.thrown # "none" THEN s.thrown
                          ELSE IF isRecording THEN "noop" ELSE "ok")
          /\ UNCHANGED <<pendingInit, now>>

CallStopRecording ==
    /\ UNCHANGED <<aggVars, setVars, appVars>>
    /\ Commit(stopRecording(Cur))
    /\ callerStopped' = TRUE
    /\ lastOp' = Op("stopRecording", 0, IF isRecording THEN "ok" ELSE "noop")
    /\ UNCHANGED <<pendingInit, now>>

CallSetIntervalDuration ==
    /\ UNCHANGED <<aggVars, setVars, appVars>>
    /\ \E ms \in DurationInputs :
           /\ isRecording => Len(timeouts) < MaxTimeouts
           /\ Commit(setIntervalDuration(Cur, ms))
           /\ lastOp' = Op("setIntervalDuration", ms,
                           IF isRecording THEN "restart" ELSE "ok")
           /\ UNCHANGED <<pendingInit, now, callerStopped>>

CallCleanup ==
    /\ UNCHANGED <<aggVars, setVars, appVars>>
    /\ Commit(cleanup(Cur))
    /\ lastOp' = Op("cleanup", 0, "ok")
    /\ UNCHANGED <<pendingInit, now, callerStopped>>

IntervalTick ==
    /\ UNCHANGED <<aggVars, setVars, appVars>>
    /\ \E t \in intervalTimers :
           /\ t.rem = 0
           /\ Len(timeouts) < MaxTimeouts
           /\ Commit(intervalCallback(
                  [Cur EXCEPT !.intervalTimers =
                      (@ \ {t}) \cup {[t EXCEPT !.rem = t.period]}]))
           /\ lastOp' = Op("intervalTick", 0, "ok")
           /\ UNCHANGED <<pendingInit, now, callerStopped>>

SettleExpiry ==
    /\ UNCHANGED <<aggVars, setVars, appVars>>
    /\ \E i \in 1..Len(timeouts) :
           /\ timeouts[i].kind = "settle"
           /\ CanFire(i)
           /\ LET s == settleCallback([Cur EXCEPT !.timeouts = RemoveAt(@, i)])
              IN /\ WithinChunks(s)
                 /\ Commit(s)
                 /\ lastOp' = Op("settleExpiry", 0,
                                 IF s.chunksStarted > chunksStarted
                                 THEN "started" ELSE "skipped")
           /\ UNCHANGED <<pendingInit, now, callerStopped>>

RestartExpiry ==
    /\ UNCHANGED <<aggVars, setVars, appVars>>
    /\ \E i \in 1..Len(timeouts) :
           /\ timeouts[i].kind = "restart"
           /\ CanFire(i)
           /\ LET s == restartCallback([Cur EXCEPT !.timeouts = RemoveAt(@, i)])
              IN /\ WithinChunks(s)
                 /\ Commit(s)
                 /\ lastOp' = Op("restartExpiry", 0,
                                 IF s.thrown # "none" THEN s.thrown
                                 ELSE IF isRecording THEN "noop" ELSE "ok")
           /\ UNCHANGED <<pendingInit, now, callerStopped>>

DeliverStop ==
    /\ UNCHANGED <<aggVars, setVars, appVars>>
    /\ stopEvents # <<>>
    /\ Commit(onstop([Cur EXCEPT !.stopEvents = Tail(@)]))
    /\ lastOp' = Op("onstop", Head(stopEvents),
                    IF onAudioReady THEN "emitted" ELSE "dropped")
    /\ UNCHANGED <<pendingInit, now, callerStopped>>

\* Time passes up to the next deadline, or half-way to it, in steps no
\* shorter than the settle delay.
Elapse ==
    /\ UNCHANGED <<aggVars, setVars, appVars>>
    /\ Rems # {}
    /\ \E d \in {NextDue, NextDue \div 2} :
        /\ d >= SettleDelay
        /\ AdvanceTimers(d)
    /\ lastOp' = Op("elapse", 0, "ok")
    /\ UNCHANGED <<isRecording, intervalDuration, mediaRecorder, stream,
                   recordingInterval, onAudioReady, recorders, liveTracks,
                   acquired, pendingInit, stopEvents, chunksStarted,
                   chunksEmitted, chunksDropped, now, callerStopped>>

Next ==
    \/ CallInitialize
    \/ InitializeResolve
    \/ InitializeReject
    \/ CallSwitchAudioDevice
    \/ CallStartRecording
    \/ CallStopRecording
    \/ CallSetIntervalDuration
    \/ CallCleanup
    \/ IntervalTick
    \/ SettleExpiry
    \/ RestartExpiry
    \/ DeliverStop
    \/ Elapse

Spec == Init /\ [][Next]_vars

\* ---------------------------------------- the simulated-clock scenario
\* Recording is started once and never stopped; the clock counts the time
\* since startRecording() in steps of the settle delay.
ClockAdvance ==
    /\ UNCHANGED <<aggVars, setVars, appVars>>
    /\ isRecording
    /\ now < MaxTime
    /\ Rems # {}
    /\ NextDue > 0
    /\ LET d == Min(SettleDelay, NextDue)
       IN /\ AdvanceTimers(d)
          /\ now' = now + d
    /\ lastOp' = Op("elapse", 0, "ok")
    /\ UNCHANGED <<isRecording, intervalDuration, mediaRecorder, stream,
                   recordingInterval, onAudioReady, recorders, liveTracks,
                   acquired, pendingInit, stopEvents, chunksStarted,
                   chunksEmitted, chunksDropped, callerStopped>>

NextClock ==
    \/ (stream = 0 /\ pendingInit = <<>> /\ CallInitialize)
    \/ InitializeResolve
    \/ (~isRecording /\ CallSetIntervalDuration)
    \/ CallStartRecording
    \/ IntervalTick
    \/ SettleExpiry
    \/ DeliverStop
    \/ ClockAdvance

SpecClock == Init /\ [][NextClock]_vars

\* ------------------------------------------------- the TemperatureManager

\* The manager's fields and what its methods read, as one record.  steps
\* and notified log what the handler about to run does, in order, and what it
\* passes to the listener; computable tells whether every average the
\* handler computed was Computable (below); thrown tells that an exception
\* is on its way to the caller, and returned is what the handler returned.
AggCur ==
    [temperatureHistory |-> temperatureHistory,
     currentTemperature |-> currentTemperature,
     averageTemperature |-> averageTemperature,
     decayWindowMinutes |-> decayWindowMinutes, sensitivity |-> sensitivity,
     localStorage |-> localStorage, clock |-> clock, steps |-> <<>>,
     notified |-> <<>>, computable |-> TRUE, thrown |-> FALSE,
     returned |-> "none"]

AggCommit(m) ==
    /\ temperatureHistory' = m.temperatureHistory
    /\ currentTemperature' = m.currentTemperature
    /\ averageTemperature' = m.averageTemperature
    /\ decayWindowMinutes' = m.decayWindowMinutes
    /\ sensitivity' = m.sensitivity
    /\ localStorage' = m.localStorage
    /\ notified' = m.notified

\* JSON.stringify and JSON.parse of the values the manager stores.
Stringify(v) == [present |-> TRUE, json |-> v]
Parse(item) == item.json

\* null where a reading is expected, as JSON allows.
Null == [null |-> TRUE]

IsNull(reading) == "null" \in DOMAIN reading

\* Reading a member of null throws a TypeError: so do the callbacks of the
\* two filters when the history holds one.
HasNull(m) ==
    \E i \in DOMAIN m.temperatureHistory : IsNull(m.temperatureHistory[i])

\* currentTime - reading.timestamp, in minutes.
Age(m, reading) == m.clock - reading.timestamp

\* Math.pow(timeWeight, (11 - sensitivity) / 5) with timeWeight =
\* max(0, 1 - age/window), scaled by window^2 so that it is an integer; -1 for
\* the powers that have no exact value on this scale.
SensitivityFactor(m, reading) ==
    LET w == m.decayWindowMinutes
        a == Age(m, reading)
        k == 11 - m.sensitivity
    IN IF a = 0 THEN w * w
       ELSE IF a >= w /\ k > 0 THEN 0
       ELSE IF a > 0 /\ a < w /\ k = 5 THEN (w - a) * w
       ELSE IF a > 0 /\ a < w /\ k = 10 THEN (w - a) * (w - a)
       ELSE -1

FinalWeight_noDecay(m, reading) ==
    m.decayWindowMinutes * m.decayWindowMinutes * reading.confidence

\* finalWeight = sensitivityFactor * reading.confidence.
FinalWeight(m, reading) == SensitivityFactor(m, reading) * reading.confidence

ValidReadings_unfiltered(m) == m.temperatureHistory

\* The readings the averaging loop does not skip.
ValidReadings(m) ==
    SelectSeq(m.temperatureHistory,
              LAMBDA r : r.temperature > 0 /\ r.confidence >= MinValidConfidence)

InWindow(m, readings) ==
    SelectSeq(readings, LAMBDA r : ~(Age(m, r) > m.decayWindowMinutes))

\* The loop's two accumulators after the readings given.
RECURSIVE WeightedSum(_, _)
WeightedSum(m, readings) ==
    IF readings = <<>> THEN 0
    ELSE WeightedSum(m, SubSeq(readings, 1, Len(readings) - 1))
         + readings[Len(readings)].temperature
           * FinalWeight(m, readings[Len(readings)])

RECURSIVE TotalWeight(_, _)
TotalWeight(m, readings) ==
    IF readings = <<>> THEN 0
    ELSE TotalWeight(m, SubSeq(readings, 1, Len(readings) - 1))
         + FinalWeight(m, readings[Len(readings)])

\* Math.round(num / den) for den > 0: floor(num/den + 1/2).
Round(num, den) == (2 * num + den) \div (2 * den)

\* The average of m is computable on the integer scale: every weight is
\* exact, and the quotient is not a tie (where the rounding of the
\* floating-point quotient depends on its last bit).
Computable(m) ==
    LET rs == InWindow(m, ValidReadings(m))
        tw == TotalWeight(m, rs)
    IN /\ \A i \in 1..Len(rs) : SensitivityFactor(m, rs[i]) >= 0
       /\ tw > 0 => (2 * WeightedSum(m, rs)) % (2 * tw) # tw

\* The loop's result: the rounded quotient when some weight is positive,
\* else the value given.
Quotient(weightedSum, totalWeight, otherwise) ==
    IF totalWeight > 0 THEN Round(weightedSum, totalWeight) ELSE otherwise

calculateWeightedAverage_reset(m) ==
    IF m.thrown THEN m
    ELSE IF HasNull(m) THEN [m EXCEPT !.thrown = TRUE]
    ELSE [m EXCEPT
             !.steps = Append(@, "average"),
             !.computable = @ /\ Computable(m),
             !.averageTemperature =
                 IF Len(ValidReadings(m)) = 0 THEN 0
                 ELSE Quotient(WeightedSum(m, InWindow(m, ValidReadings(m))),
                               TotalWeight(m, InWindow(m, ValidReadings(m))),
                               0)]

\* _calculateWeightedAverage: no valid reading, or none inside the window,
\* keeps the previous average.  Like the methods below it does nothing once
\* an exception is under way.
calculateWeightedAverage(m) ==
    IF m.thrown THEN m
    ELSE IF HasNull(m) THEN [m EXCEPT !.thrown = TRUE]
    ELSE [m EXCEPT
             !.steps = Append(@, "average"),
             !.computable = @ /\ Computable(m),
             !.averageTemperature =
                 IF Len(ValidReadings(m)) = 0 THEN @
                 ELSE Quotient(WeightedSum(m, InWindow(m, ValidReadings(m))),
                               TotalWeight(m, InWindow(m, ValidReadings(m))),
                               @)]

cleanupOldReadings_keepAll(m) ==
    IF m.thrown THEN m
    ELSE IF HasNull(m) THEN [m EXCEPT !.thrown = TRUE]
    ELSE [m EXCEPT !.steps = Append(@, "prune")]

\* _cleanupOldReadings: keep the readings no older than the window.
cleanupOldReadings(m) ==
    IF m.thrown THEN m
    ELSE IF HasNull(m) THEN [m EXCEPT !.thrown = TRUE]
    ELSE [m EXCEPT !.temperatureHistory =
                       SelectSeq(@, LAMBDA r : Age(m, r) <= m.decayWindowMinutes),
                   !.steps = Append(@, "prune")]

\* _saveToStorage: both keys are written.
saveToStorage(m) ==
    IF m.thrown THEN m
    ELSE [m EXCEPT !.localStorage =
                       [history |-> Stringify(m.temperatureHistory),
                        settings |-> Stringify(
                            [decayWindowMinutes |-> m.decayWindowMinutes,
                             sensitivity |-> m.sensitivity])],
                   !.steps = Append(@, "persist")]

\* this.onTemperatureUpdate(data): the listener is the application's.
notify(m, data) ==
    IF m.thrown THEN m
    ELSE [m EXCEPT !.notified = Append(@, data), !.steps = Append(@, "notify")]

\* getCurrentData(), as far as the listener's fields go; it carries no
\* confidence, written -1 here.
getCurrentData(m) ==
    [current |-> m.currentTemperature, average |-> m.averageTemperature,
     confidence |-> -1, readingCount |-> Len(m.temperatureHistory)]

\* onTemperatureUpdate(getCurrentData()): getCurrentData reads the last
\* reading's timestamp and throws when that element is null.
notifyCurrentData(m) ==
    IF m.thrown THEN m
    ELSE IF /\ Len(m.temperatureHistory) > 0
            /\ IsNull(m.temperatureHistory[Len(m.temperatureHistory)])
         THEN [m EXCEPT !.thrown = TRUE]
         ELSE notify(m, getCurrentData(m))

\* The listener called with the four fields addReading passes.
notifyReading(m, confidence) ==
    notify(m, [current |-> m.currentTemperature,
               average |-> m.averageTemperature,
               confidence |-> confidence,
               readingCount |-> Len(m.temperatureHistory)])

\* The reading addReading builds, pushed and made current.
\* The reading put at the head of the list instead.
Pushed_front(m, reading) ==
    [m EXCEPT !.temperatureHistory = <<reading>> \o @,
              !.currentTemperature = reading.temperature]

\* The reading pushed, currentTemperature left as it was.
Pushed_keepCurrent(m, reading) ==
    [m EXCEPT !.temperatureHistory = Append(@, reading)]

Pushed(m, reading) ==
    [m EXCEPT !.temperatureHistory = Append(@, reading),
              !.currentTemperature = reading.temperature]

acceptReading_saveFirst(m, temperature, confidence, source) ==
    notifyReading(
        cleanupOldReadings(saveToStorage(calculateWeightedAverage(
            Pushed(m, [temperature |-> Max(1, Min(100, temperature)),
                       confidence |-> Max(0, Min(10, confidence)),
                       timestamp |-> m.clock, source |-> source])))),
        confidence)

\* addReading past its early return: the reading is built, pushed and made
\* current, then the average, the cleanup, the save and the listener.
acceptReading(m, temperature, confidence, source) ==
    notifyReading(
        saveToStorage(cleanupOldReadings(calculateWeightedAverage(
            Pushed(m, [temperature |-> Max(1, Min(100, temperature)),
                       confidence |-> Max(0, Min(10, confidence)),
                       timestamp |-> m.clock, source |-> source])))),
        confidence)

addReading_storeSilence(m, temperature, confidence, source) ==
    acceptReading(m, temperature, confidence, source)

\* addReading(temperature, confidence, source): a reading of low confidence
\* and low temperature is only reported to the listener.
addReading(m, temperature, confidence, source) ==
    IF confidence < SilenceConfidence /\ temperature <= SilenceTemperature
    THEN notifyReading(m, confidence)
    ELSE acceptReading(m, temperature, confidence, source)

\* setSensitivity(sensitivity).
setSensitivity(m, value) ==
    notifyCurrentData(saveToStorage(calculateWeightedAverage(
        [m EXCEPT !.sensitivity = Max(1, Min(10, value))])))

setDecayWindow_noPrune(m, minutes) ==
    notifyCurrentData(saveToStorage(calculateWeightedAverage(
        [m EXCEPT !.decayWindowMinutes = Max(5, Min(60, minutes))])))

\* setDecayWindow(minutes).
setDecayWindow(m, minutes) ==
    notifyCurrentData(saveToStorage(calculateWeightedAverage(cleanupOldReadings(
        [m EXCEPT !.decayWindowMinutes = Max(5, Min(60, minutes))]))))

reset_zeroing(m) ==
    notifyReading([m EXCEPT !.temperatureHistory = <<>>,
                            !.currentTemperature = 0,
                            !.averageTemperature = 0,
                            !.localStorage.history =
                                [present |-> FALSE, json |-> <<>>],
                            !.steps = Append(@, "remove")],
                  0)

\* reset(): the history key is removed, the settings key is left alone.
reset(m) ==
    notifyReading([m EXCEPT !.temperatureHistory = <<>>,
                            !.localStorage.history =
                                [present |-> FALSE, json |-> <<>>],
                            !.steps = Append(@, "remove")],
                  0)

\* currentTemperature taken from the last reading, when there is one.
TakeCurrent(m) ==
    IF ~m.thrown /\ Len(m.temperatureHistory) > 0
    THEN [m EXCEPT !.currentTemperature =
              m.temperatureHistory[Len(m.temperatureHistory)].temperature]
    ELSE m

\* x || otherwise for a number x.
OrElse(x, otherwise) == IF x # 0 THEN x ELSE otherwise

\* importData's history block: the list is taken as it is, averaged, and
\* its last reading made current.
ImportHistory(m, data) ==
    IF data.hasHistory
    THEN TakeCurrent(calculateWeightedAverage(
             [m EXCEPT !.temperatureHistory = data.history]))
    ELSE m

\* importData's settings block: a member that is truthy is assigned.
ImportSettingsBlock(m, data) ==
    IF data.hasSettings /\ ~m.thrown
    THEN [m EXCEPT !.decayWindowMinutes =
                       OrElse(data.settings.decayWindowMinutes, @),
                   !.sensitivity = OrElse(data.settings.sensitivity, @)]
    ELSE m

\* importData(jsonData) for a payload JSON.parse accepts: data is the parsed
\* object, with hasHistory / hasSettings telling which members it has.
importParsed(m, data) ==
    notifyCurrentData(saveToStorage(
        ImportSettingsBlock(ImportHistory(m, data), data)))

\* The end of a try block whose catch block returns false.
Caught(m) ==
    [m EXCEPT !.thrown = FALSE,
              !.returned = IF m.thrown THEN "false" ELSE "true"]

\* importData(jsonData): the try block ends with return true; JSON.parse
\* throwing on the string, or anything thrown later, lands in the catch
\* block, which returns false and undoes nothing.
importData(m, payload) ==
    IF payload.wellFormed
    THEN Caught(importParsed(m, payload.data))
    ELSE [m EXCEPT !.returned = "false"]

\* The setInterval callback of _startCleanupInterval.
cleanupTick(m) == calculateWeightedAverage(cleanupOldReadings(m))

\* A value under a key that JSON.parse rejects.
Garbage == [present |-> TRUE, garbage |-> TRUE]

IsJson(item) == "json" \in DOMAIN item

\* _loadFromStorage's history block: parsed, pruned, averaged, and the last
\* reading made current, all under the parameters the constructor set.
LoadHistory(m) ==
    IF ~m.localStorage.history.present THEN m
    ELSE IF ~IsJson(m.localStorage.history) THEN [m EXCEPT !.thrown = TRUE]
    ELSE TakeCurrent(calculateWeightedAverage(cleanupOldReadings(
             [m EXCEPT !.temperatureHistory = Parse(m.localStorage.history)])))

\* _loadFromStorage's settings block, not reached once the history block
\* has thrown.
LoadSettings(m) ==
    IF m.thrown \/ ~m.localStorage.settings.present THEN m
    ELSE IF ~IsJson(m.localStorage.settings) THEN [m EXCEPT !.thrown = TRUE]
    ELSE [m EXCEPT !.decayWindowMinutes =
                       OrElse(Parse(m.localStorage.settings).decayWindowMinutes,
                              @),
                   !.sensitivity =
                       OrElse(Parse(m.localStorage.settings).sensitivity, @)]

\* _loadFromStorage: one try block around both keys; the catch block logs.
loadFromStorage(m) ==
    [LoadSettings(LoadHistory(m)) EXCEPT !.thrown = FALSE]

\* new TemperatureManager() at the time given over the store given.
constructor(store, time) ==
    loadFromStorage(
        [temperatureHistory |-> <<>>, currentTemperature |-> 0,
         averageTemperature |-> 0, decayWindowMinutes |-> DefaultDecayWindow,
         sensitivity |-> DefaultSensitivity, localStorage |-> store,
         clock |-> time, steps |-> <<>>, notified |-> <<>>,
         computable |-> TRUE, thrown |-> FALSE, returned |-> "none"])

\* ----------------------------------------- the TemperatureManager's callers

Reading(t, c, ts, source) ==
    [temperature |-> t, confidence |-> c, timestamp |-> ts, source |-> source]

\* addReading arguments: a silence reading, ordinary readings, and a reading
\* above the temperature range whose confidence is too low for the average.
ReadingInputs ==
    {<<10, 2, "api">>, <<70, 9, "api">>, <<80, 9, "api">>, <<20, 9, "api">>,
     <<150, 1, "error">>}

SensitivityInputs == {DefaultSensitivity + 1}

DecayWindowInputs == {2 * SweepPeriod}

\* importData arguments: a string that is not JSON, a document whose
\* readings, stamped at time 0, are outside the temperature range, and a
\* document with settings and no readings.
ImportPayloads ==
    {[wellFormed |-> FALSE],
     [wellFormed |-> TRUE,
      data |-> [hasHistory |-> TRUE,
                history |-> <<Reading(150, 9, 0, "api"), Reading(0, 9, 0, "api")>>,
                hasSettings |-> FALSE]],
     [wellFormed |-> TRUE,
      data |-> [hasHistory |-> TRUE, history |-> <<>>,
                hasSettings |-> TRUE,
                settings |-> [decayWindowMinutes |-> 2 * SweepPeriod,
                              sensitivity |-> DefaultSensitivity + 1]]]}

\* A handler's result stays inside the bounds of the model.
WithinReadings(m) ==
    /\ m.computable
    /\ Len(m.temperatureHistory) <= MaxReadings

\* One call of addReading with the arguments in.
Accepted(m) == ~m.thrown /\ Len(m.steps) > 1

AddReadingStep(in) ==
    \E m \in {addReading(AggCur, in[1], in[2], in[3])} :
       /\ WithinReadings(m)
       /\ Accepted(m) => clock <= MaxAddClock
       /\ AggCommit(m)
       /\ lastOp' = Op("addReading", 0,
                       IF m.thrown THEN "threw"
                       ELSE IF Accepted(m) THEN "accepted" ELSE "silence")
       /\ validAccepted' = (validAccepted
                            \/ (Accepted(m) /\ in[2] >= MinValidConfidence))
       /\ UNCHANGED <<clock, sweepRem>>

CallAddReading ==
    \E in \in ReadingInputs :
        /\ AddReadingStep(in)
        /\ UNCHANGED <<recVars, setVars, appVars>>

SetSensitivityStep(value) ==
    \E m \in {setSensitivity(AggCur, value)} :
       /\ WithinReadings(m)
       /\ AggCommit(m)
       /\ lastOp' = Op("setSensitivity", value,
                       IF m.thrown THEN "threw" ELSE "ok")
       /\ UNCHANGED <<clock, sweepRem, validAccepted>>

CallSetSensitivity ==
    \E value \in SensitivityInputs :
        /\ SetSensitivityStep(value)
        /\ UNCHANGED <<recVars, setVars, appVars>>

SetDecayWindowStep(minutes) ==
    \E m \in {setDecayWindow(AggCur, minutes)} :
       /\ WithinReadings(m)
       /\ AggCommit(m)
       /\ lastOp' = Op("setDecayWindow", minutes,
                       IF m.thrown THEN "threw" ELSE "ok")
       /\ UNCHANGED <<clock, sweepRem, validAccepted>>

CallSetDecayWindow ==
    \E minutes \in DecayWindowInputs :
        /\ SetDecayWindowStep(minutes)
        /\ UNCHANGED <<recVars, setVars, appVars>>

CallReset ==
    /\ AggCommit(reset(AggCur))
    /\ lastOp' = Op("reset", 0, "ok")
    /\ UNCHANGED <<clock, sweepRem, validAccepted>>
    /\ UNCHANGED <<recVars, setVars, appVars>>

ImportDataStep(payload) ==
    \E m \in {importData(AggCur, payload)} :
       /\ WithinReadings(m)
       /\ AggCommit(m)
       /\ lastOp' = Op("importData", 0, m.returned)
       /\ UNCHANGED <<clock, sweepRem, validAccepted>>

CallImportData ==
    \E payload \in ImportPayloads :
        /\ ImportDataStep(payload)
        /\ UNCHANGED <<recVars, setVars, appVars>>

\* The cleanup timer expires and is re-armed.
CleanupTick ==
    \E m \in {cleanupTick(AggCur)} :
       /\ sweepRem = 0
       /\ WithinReadings(m)
       /\ AggCommit(m)
       /\ sweepRem' = SweepPeriod
       /\ lastOp' = Op("cleanupTick", 0, IF m.thrown THEN "threw" ELSE "ok")
       /\ UNCHANGED <<clock, validAccepted>>
       /\ UNCHANGED <<recVars, setVars, appVars>>

\* Time passes up to the cleanup timer's deadline; in the first period it
\* may also stop a minute short of it.
AggElapse ==
    \E d \in {sweepRem, SweepPeriod - 1} :
        /\ d > 0
        /\ d <= sweepRem
        /\ d = sweepRem \/ clock = 0
        /\ clock + d <= MaxClock
        /\ clock' = clock + d
        /\ sweepRem' = sweepRem - d
        /\ lastOp' = Op("elapse", d, "ok")
        /\ notified' = <<>>
        /\ UNCHANGED <<temperatureHistory, currentTemperature,
                       averageTemperature, decayWindowMinutes, sensitivity,
                       localStorage, validAccepted>>
        /\ UNCHANGED <<recVars, setVars, appVars>>

NextAgg ==
    \/ CallAddReading
    \/ CallSetSensitivity
    \/ CallSetDecayWindow
    \/ CallReset
    \/ CallImportData
    \/ CleanupTick
    \/ AggElapse

SpecAgg == Init /\ [][NextAgg]_vars

\* ------------------------------------ the TemperatureManager and its store

\* Arguments for the scenario of reloads, imports and a store written from
\* outside: one ordinary reading, parameters inside and outside their
\* ranges, and documents that are not what exportData writes.
StoreReadingInputs == {<<70, 9, "api">>}

StoreSensitivityInputs == {DefaultSensitivity + 1}

StoreDecayWindowInputs == {100}

StoreImportPayloads ==
    {[wellFormed |-> FALSE],
     [wellFormed |-> TRUE,
      data |-> [hasHistory |-> FALSE, hasSettings |-> FALSE]],
     [wellFormed |-> TRUE,
      data |-> [hasHistory |-> TRUE, history |-> <<Null>>,
                hasSettings |-> FALSE]],
     [wellFormed |-> TRUE,
      data |-> [hasHistory |-> FALSE, hasSettings |-> TRUE,
                settings |-> [decayWindowMinutes |-> 500, sensitivity |-> 99]]]}

StoreAddReading ==
    \E in \in StoreReadingInputs :
        /\ AddReadingStep(in)
        /\ UNCHANGED <<recVars, setVars, appVars>>

StoreSetSensitivity ==
    \E value \in StoreSensitivityInputs :
        /\ SetSensitivityStep(value)
        /\ UNCHANGED <<recVars, setVars, appVars>>

StoreSetDecayWindow ==
    \E minutes \in StoreDecayWindowInputs :
        /\ SetDecayWindowStep(minutes)
        /\ UNCHANGED <<recVars, setVars, appVars>>

StoreImportData ==
    \E payload \in StoreImportPayloads :
        /\ ImportDataStep(payload)
        /\ UNCHANGED <<recVars, setVars, appVars>>

\* The page is loaded again: a new manager is constructed over the store as
\* it is, its cleanup timer armed; the old one and its timer are gone.
Reload ==
    \E m \in {constructor(localStorage, clock)} :
       /\ WithinReadings(m)
       /\ AggCommit(m)
       /\ sweepRem' = SweepPeriod
       /\ validAccepted' = FALSE
       /\ lastOp' = Op("constructor", 0, "ok")
       /\ UNCHANGED clock
       /\ UNCHANGED <<recVars, setVars, appVars>>

\* Something other than the manager leaves a value that is not JSON under
\* one of the manager's keys.
TamperStore ==
    \E key \in {"history", "settings"} :
        /\ localStorage[key] # Garbage
        /\ localStorage' = [localStorage EXCEPT ![key] = Garbage]
        /\ notified' = <<>>
        /\ lastOp' = Op("tamper", 0, key)
        /\ UNCHANGED <<temperatureHistory, currentTemperature,
                       averageTemperature, decayWindowMinutes, sensitivity,
                       clock, sweepRem, validAccepted>>
        /\ UNCHANGED <<recVars, setVars, appVars>>

\* Time passes from one expiry of the cleanup timer to the next.
NextStore ==
    \/ StoreAddReading
    \/ StoreSetSensitivity
    \/ StoreSetDecayWindow
    \/ StoreImportData
    \/ Reload
    \/ TamperStore
    \/ CleanupTick
    \/ (AggElapse /\ clock' = clock + sweepRem)

SpecStore == Init /\ [][NextStore]_vars

\* ------------------------------------------------------ the settings surface

SettingKeys == DOMAIN SettingsDefaults

\* Values below, inside and above the three ranges.
SettingValues == {3, 30, 90}

\* Documents given to importSettings: text that is not JSON, and exported
\* settings naming some or all of the keys.
SettingsPayloads ==
    {[wellFormed |-> FALSE],
     [wellFormed |-> TRUE, settings |-> [recordingInterval |-> 30]],
     [wellFormed |-> TRUE,
      settings |-> [recordingInterval |-> 40, temperatureSensitivity |-> 8,
                    decayWindowMinutes |-> 30]]}

\* RoomTemperatureApp._onSettingsChange(key, value): the switch has a case
\* for recordingInterval and one for temperatureSensitivity; any other key
\* among the three, and the key 'reset', falls through.
OnSettingsChange(key, value) ==
    CASE key = "recordingInterval" ->
             /\ isRecording => Len(timeouts) < MaxTimeouts
             /\ Commit(setIntervalDuration(Cur, value * 1000))
             /\ UNCHANGED <<pendingInit, now, callerStopped>>
             /\ UNCHANGED aggVars
      [] key = "temperatureSensitivity" ->
             \E m \in {setSensitivity(AggCur, value)} :
                /\ WithinReadings(m)
                /\ AggCommit(m)
                /\ UNCHANGED <<clock, sweepRem, validAccepted>>
                /\ UNCHANGED recVars
      [] OTHER -> UNCHANGED <<recVars, aggVars>>

\* SettingsManager.updateSetting(key, value).
UpdateSetting ==
    \E key \in SettingKeys, value \in SettingValues :
        /\ settings' = [settings EXCEPT ![key] = value]
        /\ appSettings' = Stringify(settings')
        /\ OnSettingsChange(key, value)
        /\ lastOp' = Op("updateSetting", value, key)
        /\ UNCHANGED appVars

\* importSettings(jsonData): the keys the document names are merged into
\* the settings and saved; onSettingsChange is not called.
importSettings(current, payload) ==
    IF payload.wellFormed
    THEN [settings |-> [key \in SettingKeys |->
                           IF key \in DOMAIN payload.settings
                           THEN payload.settings[key] ELSE current[key]],
          returned |-> "true"]
    ELSE [settings |-> current, returned |-> "false"]

ImportSettings ==
    \E payload \in SettingsPayloads :
        LET done == importSettings(settings, payload)
        IN /\ settings' = done.settings
           /\ appSettings' = IF done.returned = "true"
                              THEN Stringify(done.settings) ELSE appSettings
           /\ lastOp' = Op("importSettings", 0, done.returned)
           /\ UNCHANGED <<recVars, aggVars, appVars>>

\* resetToDefaults(): onSettingsChange is called with the key 'reset'.
ResetToDefaults ==
    /\ settings' = SettingsDefaults
    /\ appSettings' = Stringify(SettingsDefaults)
    /\ OnSettingsChange("reset", 0)
    /\ lastOp' = Op("resetToDefaults", 0, "ok")
    /\ UNCHANGED appVars

NextSettings ==
    \/ UpdateSetting
    \/ ImportSettings
    \/ ResetToDefaults

SpecSettings == Init /\ [][NextSettings]_vars

\* ------------------------------------------------------------ getTrend
\* Fractions are records [num, den] with den > 0.

Abs(n) == IF n < 0 THEN -n ELSE n

RECURSIVE SumOf(_)
SumOf(numbers) ==
    IF numbers = <<>> THEN 0
    ELSE numbers[Len(numbers)] + SumOf(SubSeq(numbers, 1, Len(numbers) - 1))

\* getHistory(minutes): the readings no older than minutes, or than the
\* decay window when minutes is not given; the list's order is kept.
getHistory(m, minutes) ==
    SelectSeq(m.temperatureHistory,
              LAMBDA r : Age(m, r) <= (IF minutes # 0 THEN minutes
                                       ELSE m.decayWindowMinutes))

\* The four sums of the forEach loop, x being the index from 0.
SumX(readings) == SumOf([i \in DOMAIN readings |-> i - 1])
SumY(readings) == SumOf([i \in DOMAIN readings |-> readings[i].temperature])
SumXY(readings) ==
    SumOf([i \in DOMAIN readings |-> (i - 1) * readings[i].temperature])
SumXX(readings) == SumOf([i \in DOMAIN readings |-> (i - 1) * (i - 1)])

\* slope = (n * sumXY - sumX * sumY) / (n * sumXX - sumX * sumX).
Slope(readings) ==
    [num |-> Len(readings) * SumXY(readings) - SumX(readings) * SumY(readings),
     den |-> Len(readings) * SumXX(readings) - SumX(readings) * SumX(readings)]

\* The two comparisons taken to include the thresholds.
Direction_inclusive(slope) ==
    IF 2 * slope.num >= slope.den THEN "rising"
    ELSE IF 2 * slope.num <= -slope.den THEN "falling"
    ELSE "stable"

\* slope > 0.5 is rising, slope < -0.5 is falling, else stable.
Direction(slope) ==
    IF 2 * slope.num > slope.den THEN "rising"
    ELSE IF 2 * slope.num < -slope.den THEN "falling"
    ELSE "stable"

\* Math.min(1, magnitude / 10).
TrendConfidence(slope) ==
    IF Abs(slope.num) >= 10 * slope.den THEN [num |-> 1, den |-> 1]
    ELSE [num |-> Abs(slope.num), den |-> 10 * slope.den]

\* What getTrend returns for the readings getHistory gave it.
TrendOf(readings) ==
    IF Len(readings) < 2
    THEN [direction |-> "stable", magnitude |-> [num |-> 0, den |-> 1],
          confidence |-> [num |-> 0, den |-> 1]]
    ELSE [direction |-> Direction(Slope(readings)),
          magnitude |-> [num |-> Abs(Slope(readings).num),
                         den |-> Slope(readings).den],
          confidence |-> TrendConfidence(Slope(readings)),
          slope |-> Slope(readings)]

\* getTrend().
getTrend(m) == TrendOf(getHistory(m, TrendMinutes))

\* The manager constructed at TrendClock over a store that holds a history
\* of up to MaxTrendReadings readings, taken 6 or 5 minutes before or just
\* then: analysed readings (80, 0.9) and readings of confidence 0.1.
TrendTimestamps == {TrendClock - (TrendMinutes + 1), TrendClock - TrendMinutes,
                    TrendClock}

TrendReadings ==
    {Reading(t, ErrorConfidence, ts, "api") :
        t \in {ErrorTemperature, ErrorTemperature + 1}, ts \in TrendTimestamps}
    \cup {Reading(80, 9, ts, "api") : ts \in TrendTimestamps}

TrendHistories ==
    {h \in UNION {[1..n -> TrendReadings] : n \in 0..MaxTrendReadings} :
        \A i, j \in DOMAIN h : i < j => h[i].timestamp <= h[j].timestamp}

TrendStore(h) ==
    [history |-> Stringify(h),
     settings |-> Stringify([decayWindowMinutes |-> DefaultDecayWindow,
                             sensitivity |-> DefaultSensitivity])]

InitTrend ==
    \E h \in TrendHistories :
       \E m \in {constructor(TrendStore(h), TrendClock)} :
          /\ m.computable
          /\ isRecording = FALSE
          /\ intervalDuration = DefaultIntervalDuration
          /\ mediaRecorder = 0
          /\ stream = 0
          /\ recordingInterval = 0
          /\ onAudioReady = TRUE
          /\ recorders = [i \in Ids |-> "inactive"]
          /\ liveTracks = {}
          /\ acquired = 0
          /\ pendingInit = <<>>
          /\ intervalTimers = {}
          /\ timeouts = <<>>
          /\ stopEvents = <<>>
          /\ chunksStarted = 0
          /\ chunksEmitted = 0
          /\ chunksDropped = 0
          /\ now = 0
          /\ callerStopped = FALSE
          /\ lastOp = Op("constructor", 0, "ok")
          /\ temperatureHistory = m.temperatureHistory
          /\ currentTemperature = m.currentTemperature
          /\ averageTemperature = m.averageTemperature
          /\ decayWindowMinutes = m.decayWindowMinutes
          /\ sensitivity = m.sensitivity
          /\ localStorage = m.localStorage
          /\ clock = TrendClock
          /\ sweepRem = SweepPeriod
          /\ notified = <<>>
          /\ validAccepted = FALSE
          /\ settings = SettingsDefaults
          /\ appSettings = [present |-> FALSE, json |-> <<>>]
          /\ appIsRecording = FALSE
          /\ isProcessing = FALSE
          /\ inFlight = 0

\* _onTemperatureUpdate asks for the trend.
CallGetTrend ==
    /\ lastOp' = Op("getTrend", 0, getTrend(AggCur))
    /\ UNCHANGED <<recVars, aggVars, setVars, appVars>>

NextTrend == CallGetTrend

SpecTrend == InitTrend /\ [][NextTrend]_vars

\* --------------------------------------------------------- the application
\* RoomTemperatureApp between the recorder and the TemperatureManager: the
\* record button, the recordingInterval setting, the reset button, the
\* recorder's callbacks and the analysis of the chunks.

\* What the analysis service answers: { temperature, confidence } of a
\* conversation and of silence, or the request fails.
AnalysisOutcomes ==
    {[ok |-> TRUE, result |-> <<70, 9>>],
     [ok |-> TRUE, result |-> <<10, 2>>],
     [ok |-> FALSE, error |-> "network"]}

AppIntervalInputs == {30}

\* The application's fields _processAudioBlob works on; skipped and failed
\* tell which way the call went.
AppCur ==
    [isProcessing |-> isProcessing, inFlight |-> inFlight,
     skipped |-> FALSE, failed |-> FALSE]

\* The catch block of _processAudioBlob without its addReading call.
analysisFailed_noReading(m) == m

\* The catch block of _processAudioBlob: a neutral reading of low confidence.
analysisFailed(m) ==
    addReading(m, ErrorTemperature, ErrorConfidence, "error")

\* The catch block entered from a try block that threw.
Recovered(m) ==
    IF m.thrown THEN analysisFailed([m EXCEPT !.thrown = FALSE]) ELSE m

\* _processAudioBlob after its awaits: the result goes to addReading, a
\* failure of the request to the catch block.
analysisCompleted(m, outcome) ==
    IF outcome.ok
    THEN Recovered(addReading(m, outcome.result[1], outcome.result[2], "api"))
    ELSE analysisFailed(m)

\* _processAudioBlob that does not look at isProcessing.
processAudioBlob_noGuard(a, empty) ==
    IF empty THEN [a EXCEPT !.failed = TRUE]
    ELSE [a EXCEPT !.isProcessing = TRUE, !.inFlight = @ + 1]

\* _processAudioBlob(audioBlob) up to its first await: it returns at once
\* while a chunk is being processed; an empty blob throws before the request
\* is made, and the finally block clears isProcessing in the same run.
processAudioBlob(a, empty) ==
    IF a.isProcessing THEN [a EXCEPT !.skipped = TRUE]
    ELSE IF empty THEN [a EXCEPT !.failed = TRUE]
    ELSE [a EXCEPT !.isProcessing = TRUE, !.inFlight = @ + 1]

\* _startRecording once the recorder holds a stream: the interval is taken
\* from the settings and the recorder started.
AppStartRecorder(s) ==
    startRecording(setIntervalDuration(s, settings.recordingInterval * 1000))

\* The record button while the application is not recording and the
\* recorder holds a stream.
AppToggleStart ==
    \E s \in {AppStartRecorder(Cur)} :
       /\ ~appIsRecording
       /\ stream # 0
       /\ isRecording => Len(timeouts) < MaxTimeouts
       /\ WithinChunks(s)
       /\ Commit(s)
       /\ appIsRecording' = (s.thrown = "none")
       /\ callerStopped' = FALSE
       /\ lastOp' = Op("toggle", 0, "started")
       /\ UNCHANGED <<pendingInit, now, isProcessing, inFlight>>
       /\ UNCHANGED <<aggVars, setVars>>

\* The record button while the recorder holds no stream: _startRecording
\* awaits initialize().
AppToggleInitialize ==
    /\ ~appIsRecording
    /\ stream = 0
    /\ acquired + Len(pendingInit) < MaxAcquire
    /\ pendingInit' = Append(pendingInit, FALSE)
    /\ lastOp' = Op("toggle", 0, "pending")
    /\ UNCHANGED <<isRecording, intervalDuration, mediaRecorder, stream,
                   recordingInterval, onAudioReady, recorders, liveTracks,
                   acquired, intervalTimers, timeouts, stopEvents,
                   chunksStarted, chunksEmitted, chunksDropped, now,
                   callerStopped>>
    /\ UNCHANGED <<aggVars, setVars, appVars>>

\* initialize() resolved and _startRecording goes on.
AppInitializeResolve ==
    \E i \in 1..Len(pendingInit) :
       \E s \in {AppStartRecorder(initializeResolved(Cur))} :
          /\ isRecording => Len(timeouts) < MaxTimeouts
          /\ WithinChunks(s)
          /\ Commit(s)
          /\ pendingInit' = RemoveAt(pendingInit, i)
          /\ appIsRecording' = IF s.thrown = "none" THEN TRUE ELSE appIsRecording
          /\ callerStopped' = FALSE
          /\ lastOp' = Op("toggle", 1, "started")
          /\ UNCHANGED <<now, isProcessing, inFlight>>
          /\ UNCHANGED <<aggVars, setVars>>

\* initialize() rejected: the catch block of _startRecording reports it.
AppInitializeReject ==
    \E i \in 1..Len(pendingInit) :
       /\ pendingInit' = RemoveAt(pendingInit, i)
       /\ lastOp' = Op("toggle", 1, "rejected")
       /\ UNCHANGED <<isRecording, intervalDuration, mediaRecorder, stream,
                      recordingInterval, onAudioReady, recorders, liveTracks,
                      acquired, intervalTimers, timeouts, stopEvents,
                      chunksStarted, chunksEmitted, chunksDropped, now,
                      callerStopped>>
       /\ UNCHANGED <<aggVars, setVars, appVars>>

\* The record button while the application is recording: _stopRecording.
AppToggleStop ==
    /\ appIsRecording
    /\ Commit(stopRecording(Cur))
    /\ appIsRecording' = FALSE
    /\ callerStopped' = TRUE
    /\ lastOp' = Op("toggle", 0, "stopped")
    /\ UNCHANGED <<pendingInit, now, isProcessing, inFlight>>
    /\ UNCHANGED <<aggVars, setVars>>

\* The recordingInterval setting is changed.
AppChangeInterval ==
    /\ UpdateSetting
    /\ lastOp'.result = "recordingInterval"
    /\ lastOp'.arg \in AppIntervalInputs

\* The MediaRecorder fails while recording: it becomes inactive and fires
\* 'error', then 'stop'; onerror passes the error to _onRecordingError, which
\* clears the application's flag.
AppRecorderError ==
    /\ mediaRecorder # 0
    /\ recorders[mediaRecorder] = "recording"
    /\ Commit(stopRecordingChunk(Cur))
    /\ appIsRecording' = FALSE
    /\ lastOp' = Op("recorderError", 0, "ok")
    /\ UNCHANGED <<pendingInit, now, callerStopped, isProcessing, inFlight>>
    /\ UNCHANGED <<aggVars, setVars>>

\* The reset button, confirmed: _stopRecording if the application is
\* recording, then TemperatureManager.reset().
AppReset ==
    /\ Commit(IF appIsRecording THEN stopRecording(Cur) ELSE Cur)
    /\ appIsRecording' = FALSE
    /\ callerStopped' = (appIsRecording \/ callerStopped)
    /\ AggCommit(reset(AggCur))
    /\ lastOp' = Op("resetApplication", 0, "ok")
    /\ UNCHANGED <<pendingInit, now, isProcessing, inFlight>>
    /\ UNCHANGED <<clock, sweepRem, validAccepted, setVars>>

\* The 'stop' event of a chunk: onstop hands the blob to _processAudioBlob.
AppDeliverStop ==
    \E empty \in BOOLEAN :
       \E a \in {processAudioBlob(AppCur, empty)} :
          /\ stopEvents # <<>>
          /\ onAudioReady
          /\ Commit(onstop([Cur EXCEPT !.stopEvents = Tail(@)]))
          /\ isProcessing' = a.isProcessing
          /\ inFlight' = a.inFlight
          /\ IF a.failed
             THEN \E m \in {analysisFailed(AggCur)} :
                     /\ WithinReadings(m)
                     /\ AggCommit(m)
                     /\ UNCHANGED <<clock, sweepRem, validAccepted>>
             ELSE UNCHANGED aggVars
          /\ lastOp' = Op("onstop", IF a.failed THEN 1 ELSE 0,
                          IF a.skipped THEN "skipped"
                          ELSE IF a.failed THEN "empty" ELSE "sent")
          /\ UNCHANGED <<pendingInit, now, callerStopped, appIsRecording>>
          /\ UNCHANGED setVars

\* The request of a chunk comes to its end: the finally block clears
\* isProcessing.
AnalysisComplete ==
    \E outcome \in AnalysisOutcomes :
       \E m \in {analysisCompleted(AggCur, outcome)} :
          /\ inFlight > 0
          /\ WithinReadings(m)
          /\ AggCommit(m)
          /\ validAccepted' = (validAccepted \/ (outcome.ok /\ Accepted(m)))
          /\ inFlight' = inFlight - 1
          /\ isProcessing' = FALSE
          /\ lastOp' = Op("analysis", Len(m.notified),
                          IF outcome.ok THEN "ok" ELSE outcome.error)
          /\ UNCHANGED <<clock, sweepRem, appIsRecording>>
          /\ UNCHANGED <<recVars, setVars>>

\* Time passes up to the next deadline.
AppElapse ==
    /\ Elapse
    /\ 0 \in {t.rem : t \in intervalTimers'}
             \cup {timeouts'[i].rem : i \in DOMAIN timeouts'}

\* The record button, the interval setting, the recorder's error callback
\* and the reset button over a recorder whose chunks are sent for analysis;
\* the requests stay outstanding.
NextApp ==
    \/ AppToggleStart
    \/ AppToggleInitialize
    \/ AppInitializeResolve
    \/ AppInitializeReject
    \/ AppToggleStop
    \/ AppChangeInterval
    \/ AppRecorderError
    \/ AppReset
    \/ AppDeliverStop
    \/ IntervalTick
    \/ SettleExpiry
    \/ RestartExpiry
    \/ AppElapse

SpecApp == Init /\ [][NextApp]_vars

\* The chunks of a recording started and stopped with the record button,
\* and the outcomes of their analysis.
NextAnalysis ==
    \/ AppToggleStart
    \/ AppToggleInitialize
    \/ AppInitializeResolve
    \/ AppToggleStop
    \/ AppDeliverStop
    \/ AnalysisComplete
    \/ IntervalTick
    \/ SettleExpiry
    \/ AppElapse

SpecAnalysis == Init /\ [][NextAnalysis]_vars

\* ------------------------------------------------------------- properties
Recording == {i \in Ids : recorders[i] = "recording"}

RecorderUnchanged ==
    UNCHANGED <<isRecording, intervalDuration, mediaRecorder, stream,
                recordingInterval, onAudioReady, recorders, liveTracks,
                acquired, intervalTimers, timeouts, stopEvents,
                chunksStarted, chunksEmitted, chunksDropped>>

\* C1: once the caller has called stopRecording() and has not called
\* startRecording() since, MediaRecorder.start() is never invoked, whichever
\* timer was pending when the stop was issued.
C1_NoChunkStartAfterStop ==
    [][(callerStopped /\ callerStopped') => chunksStarted' = chunksStarted]_vars

\* C2: with one recorder and the onAudioReady callback in place, every chunk
\* started is being recorded, waits in a queued 'stop' event, or has been
\* handed to onAudioReady exactly once; none is dropped, and none is left
\* recording after the recorder stopped.
C2_EveryChunkEmittedOnce ==
    (onAudioReady /\ acquired <= 1) =>
        /\ chunksDropped = 0
        /\ chunksStarted = chunksEmitted + Len(stopEvents) + Cardinality(Recording)
        /\ (~isRecording => Recording = {})

C2_Witness ==
    /\ onAudioReady /\ acquired = 1 /\ ~isRecording
    /\ chunksStarted = 2 /\ chunksEmitted = 2
    /\ lastOp.op = "onstop"

C4_RedundantCallsAreNoOps ==
    [][((lastOp'.op = "stopRecording" /\ ~isRecording)
          \/ (lastOp'.op = "startRecording" /\ isRecording))
       => RecorderUnchanged]_vars

C4_Witness ==
    /\ lastOp = Op("startRecording", 0, "noop")
    /\ isRecording /\ Cardinality(intervalTimers) = 1 /\ chunksStarted = 1

\* C5: startRecording() on an initialized, idle recorder sets isRecording and,
\* its stream being live, starts the first chunk at once, the whole first
\* interval still ahead;
\* without a MediaRecorder it throws, isRecording stays false and no timer
\* is created.
C5_StartBeginsFirstChunk ==
    [][(lastOp'.op = "startRecording" /\ ~isRecording) =>
          IF mediaRecorder # 0
          THEN /\ isRecording'
               /\ (mediaRecorder \in liveTracks) =>
                     /\ recorders'[mediaRecorder] = "recording"
                     /\ chunksStarted' = chunksStarted + 1
               /\ \E t \in intervalTimers' :
                     /\ t.id = recordingInterval'
                     /\ t.rem = intervalDuration /\ t.period = intervalDuration
          ELSE /\ lastOp'.result = "not-initialized"
               /\ RecorderUnchanged]_vars

C5_Witness ==
    /\ lastOp = Op("startRecording", 0, "ok")
    /\ isRecording /\ mediaRecorder # 0
    /\ recorders[mediaRecorder] = "recording"
    /\ \A t \in intervalTimers : t.rem = t.period

\* C6: after setIntervalDuration() on a recording recorder, the restart timer
\* leaves the recorder recording with the interval timer at the new period,
\* unless the caller stopped it during the delay, and then it stays stopped.
C6_RestartKeepsCallerState ==
    [][lastOp'.op = "restartExpiry" =>
          IF callerStopped
          THEN ~isRecording'
          ELSE mediaRecorder # 0 =>
                 /\ isRecording'
                 /\ \A t \in intervalTimers' : t.period = intervalDuration']_vars

\* C7: intervalDuration always lies in [10000, 60000], and
\* setIntervalDuration(ms) stores ms clamped to that range.
C7_IntervalDurationClamped ==
    /\ intervalDuration >= 10000
    /\ intervalDuration <= 60000
    /\ lastOp.op = "setIntervalDuration" =>
          intervalDuration = IF lastOp.arg < 10000 THEN 10000
                             ELSE IF lastOp.arg > 60000 THEN 60000
                             ELSE lastOp.arg

C7_Witness ==
    /\ lastOp.op = "setIntervalDuration" /\ lastOp.arg = 5000
    /\ intervalDuration = 10000

\* C8: recording started at time 0 and never stopped, with no timer due and
\* no event queued: the chunks emitted up to time T number floor(T / D).
C8_ChunksPerElapsedTime ==
    (isRecording /\ stopEvents = <<>> /\ 0 \notin Rems) =>
        chunksEmitted = now \div intervalDuration

C8_Witness ==
    /\ isRecording /\ stopEvents = <<>> /\ 0 \notin Rems
    /\ intervalDuration = 10000 /\ now = 25000 /\ chunksEmitted = 2

\* C9: cleanup() in any state leaves no stream held, no MediaRecorder, the
\* recorder not recording and the tracks of the stream it held stopped; on
\* a recorder already cleaned up it changes nothing.
CleanedUp ==
    stream = 0 /\ mediaRecorder = 0 /\ ~isRecording /\ ~onAudioReady

C9_CleanupReleasesDevice ==
    [][lastOp'.op = "cleanup" =>
          /\ stream' = 0
          /\ mediaRecorder' = 0
          /\ ~isRecording'
          /\ intervalTimers' = {}
          /\ (stream # 0 => stream \notin liveTracks')
          /\ (CleanedUp => RecorderUnchanged)]_vars

C9_Witness ==
    /\ lastOp.op = "cleanup" /\ acquired = 1 /\ liveTracks = {}
    /\ \E i \in 1..Len(timeouts) : timeouts[i].kind = "settle"

\* C10: initialize() on a recorder that already holds the device acquires
\* no second stream, keeps the MediaRecorder and leaves the held stream and
\* the recording state as they were.
C10_InitializeIdempotent ==
    [][(lastOp'.op = "initialize" /\ lastOp'.arg = 1 /\ stream # 0) =>
          /\ stream' = stream
          /\ mediaRecorder' = mediaRecorder
          /\ acquired' = acquired
          /\ liveTracks' = liveTracks
          /\ isRecording' = isRecording]_vars

\* C11: the device has a single owner: every acquired stream whose tracks
\* still run is the one this.stream references, so at most one is unreleased.
C11_SingleOwner ==
    /\ Cardinality(liveTracks) <= 1
    /\ \A id \in liveTracks : stream = id

\* C12: a failed acquisition is reported with its cause (denied, not found,
\* other), and when it leaves the recorder without a device the recorder
\* holds no MediaRecorder either, so that startRecording() cannot set it
\* recording until a later initialize() succeeds.
C12_FailureBlocksStart ==
    [][(lastOp'.op = "initialize" /\ lastOp'.result \notin {"pending", "ok"}) =>
          /\ lastOp'.result \in ErrorNames
          /\ (stream' = 0 /\ ~isRecording') => mediaRecorder' = 0]_vars

\* --------------------------------------- properties of the TemperatureManager

\* Arguments on the silence side of addReading's test, its edges included.
SilenceArguments == {0, 10, SilenceTemperature} \X {-1, 2, SilenceConfidence - 1}

\* C13: addReading(t, c, source) with c < 0.4 and t <= 25 changes neither
\* currentTemperature nor averageTemperature nor the reading list nor the
\* persisted store, and notifies the listener exactly once, with the
\* unchanged current, average and reading count.
C13_SilenceChangesNothing ==
    \A in \in SilenceArguments :
        LET m == addReading(AggCur, in[1], in[2], "api")
        IN /\ m.currentTemperature = currentTemperature
           /\ m.averageTemperature = averageTemperature
           /\ m.temperatureHistory = temperatureHistory
           /\ m.localStorage = localStorage
           /\ m.steps = <<"notify">>
           /\ m.notified = <<[current |-> currentTemperature,
                              average |-> averageTemperature,
                              confidence |-> in[2],
                              readingCount |-> Len(temperatureHistory)]>>

\* A silence reading arrived after readings had been stored and averaged.
C13_Witness ==
    /\ lastOp = Op("addReading", 0, "silence")
    /\ Len(temperatureHistory) = MaxReadings
    /\ averageTemperature > 0
    /\ localStorage.history.present

\* Arguments addReading accepts, inside and outside the two ranges.
AcceptedArguments ==
    {in \in {0, SilenceTemperature + 1, 150} \X {-1, SilenceConfidence, 15} :
        ~(in[2] < SilenceConfidence /\ in[1] <= SilenceTemperature)}

\* A stored reading has outlived the decay window at the present time.
Expired(reading) == clock - reading.timestamp > decayWindowMinutes

\* C14: an addReading(t, c, source) that is not a silence event appends one
\* reading, its temperature clamped to [1,100] and its confidence to [0,1],
\* makes that temperature current, and then recomputes the average, prunes
\* the expired readings, persists and notifies, in this order and once each:
\* the store holds the pruned list and the listener gets its length.
C14_AcceptedReadingPipeline ==
    \A in \in AcceptedArguments :
        LET m == addReading(AggCur, in[1], in[2], "api")
            t == IF in[1] < 1 THEN 1 ELSE IF in[1] > 100 THEN 100 ELSE in[1]
            c == IF in[2] < 0 THEN 0 ELSE IF in[2] > 10 THEN 10 ELSE in[2]
            n == Len(m.temperatureHistory)
        IN /\ n >= 1
           /\ m.temperatureHistory[n] = Reading(t, c, clock, "api")
           /\ SubSeq(m.temperatureHistory, 1, n - 1) =
                  SelectSeq(temperatureHistory, LAMBDA r : ~Expired(r))
           /\ m.currentTemperature = t
           /\ m.steps = <<"average", "prune", "persist", "notify">>
           /\ m.localStorage.history = Stringify(m.temperatureHistory)
           /\ m.notified = <<[current |-> t,
                              average |-> m.averageTemperature,
                              confidence |-> in[2], readingCount |-> n]>>

\* An accepted reading above the temperature range was stored, clamped,
\* after another one.
C14_Witness ==
    /\ lastOp = Op("addReading", 0, "accepted")
    /\ Len(temperatureHistory) = MaxReadings
    /\ temperatureHistory[MaxReadings] = Reading(100, 1, clock, "error")
    /\ currentTemperature = 100
    /\ localStorage.history = Stringify(temperatureHistory)

\* confidence * max(0, 1 - age/window)^((11 - sensitivity)/5) of a stored
\* reading, on the scale window^2 and in tenths; -1 where the power is not
\* rational.
DocumentedWeight(reading) ==
    LET a == clock - reading.timestamp
        w == decayWindowMinutes
    IN reading.confidence *
          CASE a = 0 -> w * w
            [] a >= w -> 0
            [] a > 0 /\ a < w /\ 11 - sensitivity = 5 -> w * (w - a)
            [] a > 0 /\ a < w /\ 11 - sensitivity = 10 -> (w - a) * (w - a)
            [] OTHER -> -1

\* The stored readings that count: valid, inside the window, of positive
\* weight.
Contributing ==
    {i \in 1..Len(temperatureHistory) :
        /\ temperatureHistory[i].temperature > 0
        /\ temperatureHistory[i].confidence >= MinValidConfidence
        /\ clock - temperatureHistory[i].timestamp <= decayWindowMinutes
        /\ DocumentedWeight(temperatureHistory[i]) > 0}

RECURSIVE SumTemperatureWeight(_)
SumTemperatureWeight(S) ==
    IF S = {} THEN 0
    ELSE LET i == CHOOSE j \in S : TRUE
         IN temperatureHistory[i].temperature
               * DocumentedWeight(temperatureHistory[i])
            + SumTemperatureWeight(S \ {i})

RECURSIVE SumWeight(_)
SumWeight(S) ==
    IF S = {} THEN 0
    ELSE LET i == CHOOSE j \in S : TRUE
         IN DocumentedWeight(temperatureHistory[i]) + SumWeight(S \ {i})

\* n is num/den rounded to the nearest integer, halves upwards.
IsRounded(n, num, den) ==
    /\ 2 * n * den - den <= 2 * num
    /\ 2 * num < 2 * n * den + den

\* The last step ran a handler that recomputes the average under the
\* settings it leaves behind.
Recomputed ==
    \/ lastOp = Op("addReading", 0, "accepted")
    \/ lastOp.op \in {"setSensitivity", "setDecayWindow", "cleanupTick"}

Counted(reading) ==
    /\ reading.temperature > 0
    /\ reading.confidence >= MinValidConfidence
    /\ ~Expired(reading)

\* Another temperature for a reading, on the same side of 0.
Altered(reading) ==
    [reading EXCEPT !.temperature =
        IF @ <= 0 THEN @ - 50 ELSE 101 - Min(@, 100)]

\* C16: readings with temperature <= 0, with confidence < 0.3 or older than
\* the decay window do not contribute to the average: removing them from the
\* history, or changing their temperature, does not change the value a
\* recomputation produces.
C16_UncountedReadingsIgnored ==
    LET m == AggCur
        removed == [m EXCEPT !.temperatureHistory = SelectSeq(@, Counted)]
        changed == [m EXCEPT !.temperatureHistory =
                       [i \in DOMAIN @ |->
                           IF Counted(@[i]) THEN @[i] ELSE Altered(@[i])]]
        produced == calculateWeightedAverage(m).averageTemperature
    IN /\ calculateWeightedAverage(removed).averageTemperature = produced
       /\ calculateWeightedAverage(changed).averageTemperature = produced

\* An average was computed over a history holding a reading of confidence
\* 0.1 before a valid one, and it is the valid one's temperature.
C16_Witness ==
    /\ Recomputed
    /\ Len(temperatureHistory) = 2
    /\ ~Counted(temperatureHistory[1])
    /\ temperatureHistory[1].confidence > 0
    /\ Contributing = {2}
    /\ averageTemperature = temperatureHistory[2].temperature

C18_TemperaturesStayInRange ==
    validAccepted =>
        /\ currentTemperature \in 1..100
        /\ averageTemperature \in 1..100

\* The last step was an accepted addReading or a tick of the periodic sweep.
Pruned ==
    \/ lastOp = Op("addReading", 0, "accepted")
    \/ lastOp.op = "cleanupTick"

\* C19: after every accepted addReading and every tick of the periodic
\* sweep no stored reading is older than the decay window; the tick removes
\* the expired readings and nothing else, none comes back, and the average
\* is the one computed from the readings that remain.
C19_ExpiredReadingsPruned ==
    [][Pruned' =>
          /\ \A i \in DOMAIN temperatureHistory' :
                 clock' - temperatureHistory'[i].timestamp <= decayWindowMinutes'
          /\ lastOp'.op = "cleanupTick" =>
                 temperatureHistory' =
                     SelectSeq(temperatureHistory, LAMBDA r : ~Expired(r))
          /\ averageTemperature' =
                 calculateWeightedAverage(
                     [AggCur EXCEPT !.temperatureHistory = temperatureHistory']
                 ).averageTemperature]_vars

\* A tick found a reading aged 16 minutes under the 15-minute window: the
\* store, last written when the reading was there, still shows it, and the
\* list no longer holds it.
C19_Witness ==
    /\ lastOp.op = "cleanupTick"
    /\ decayWindowMinutes = DefaultDecayWindow
    /\ localStorage.history.present
    /\ \E i \in DOMAIN Parse(localStorage.history) :
           /\ clock - Parse(localStorage.history)[i].timestamp =
                  DefaultDecayWindow + 1
           /\ \A j \in DOMAIN temperatureHistory :
                  temperatureHistory[j] # Parse(localStorage.history)[i]

\* What a reload would read under the two keys.
PersistedHistory ==
    IF localStorage.history.present THEN Parse(localStorage.history) ELSE <<>>

PersistedSettings ==
    IF localStorage.settings.present THEN Parse(localStorage.settings)
    ELSE [decayWindowMinutes |-> DefaultDecayWindow,
          sensitivity |-> DefaultSensitivity]

\* C20: after each accepted addReading, periodic sweep, setSensitivity,
\* setDecayWindow, reset and importData the persisted readings are the
\* in-memory list and the persisted parameters the in-memory parameters.
C20_StoreMatchesMemory ==
    (\/ lastOp = Op("addReading", 0, "accepted")
     \/ lastOp.op \in {"cleanupTick", "setSensitivity", "setDecayWindow",
                        "reset"}
     \/ lastOp = Op("importData", 0, "true")) =>
        /\ PersistedHistory = temperatureHistory
        /\ PersistedSettings = [decayWindowMinutes |-> decayWindowMinutes,
                                sensitivity |-> sensitivity]

\* ------------------------------ properties of the parameters and the store

\* C21: in every reachable state decayWindowMinutes is in [5,60] and
\* sensitivity is in [1,10], whatever setSensitivity, setDecayWindow,
\* importData and the restore from storage were given.
C21_ParametersInRange ==
    /\ decayWindowMinutes \in 5..60
    /\ sensitivity \in 1..10

\* C22: after a successful importData every stored reading has its
\* temperature in [1,100] and its confidence in [0,1], currentTemperature is
\* the last stored reading's temperature, and averageTemperature is the
\* weighted mean of the contributing readings under the parameters the
\* import left.
C22_ImportReclamps ==
    lastOp = Op("importData", 0, "true") =>
        /\ \A i \in 1..Len(temperatureHistory) :
               /\ temperatureHistory[i].temperature \in 1..100
               /\ temperatureHistory[i].confidence \in 0..10
        /\ Len(temperatureHistory) > 0 =>
               currentTemperature =
                   temperatureHistory[Len(temperatureHistory)].temperature
        /\ Contributing # {} =>
               IsRounded(averageTemperature, SumTemperatureWeight(Contributing),
                         SumWeight(Contributing))

\* exportData(): the document JSON.stringify writes, as importData reads it
\* back; its statistics, exportTimestamp and version members are read by
\* nothing.
exportData(m) ==
    [wellFormed |-> TRUE,
     data |-> [hasHistory |-> TRUE, history |-> m.temperatureHistory,
               hasSettings |-> TRUE,
               settings |-> [decayWindowMinutes |-> m.decayWindowMinutes,
                             sensitivity |-> m.sensitivity]]]

\* A store with neither key.
EmptyStore ==
    [history |-> [present |-> FALSE, json |-> <<>>],
     settings |-> [present |-> FALSE, json |-> <<>>]]

\* What importData leaves in a new instance given this instance's export,
\* with no time between the two.
Reimported == importData(constructor(EmptyStore, clock), exportData(AggCur))

\* C23: exportData followed at once by importData of its output on a new
\* instance gives the same reading count, the same decayWindowMinutes and
\* sensitivity and the same averageTemperature as the exporting instance
\* has.
C23_ExportImportRoundTrip ==
    Reimported.computable =>
        /\ Reimported.returned = "true"
        /\ Len(Reimported.temperatureHistory) = Len(temperatureHistory)
        /\ Reimported.decayWindowMinutes = decayWindowMinutes
        /\ Reimported.sensitivity = sensitivity
        /\ Reimported.averageTemperature = averageTemperature

\* The payloads that are not an exported document: text that is not JSON, a
\* JSON value that is not an object, a history holding null.
MalformedPayloads ==
    {payload \in StoreImportPayloads :
        payload.wellFormed => ~payload.data.hasSettings}

\* C24: importData of a malformed payload returns false and leaves the
\* reading list, currentTemperature, averageTemperature, both parameters and
\* the store as they were.
C24_MalformedImportRejected ==
    \A payload \in MalformedPayloads :
        \E m \in {importData(AggCur, payload)} :
           /\ m.returned = "false"
           /\ m.temperatureHistory = temperatureHistory
           /\ m.currentTemperature = currentTemperature
           /\ m.averageTemperature = averageTemperature
           /\ m.decayWindowMinutes = decayWindowMinutes
           /\ m.sensitivity = sensitivity
           /\ m.localStorage = localStorage

\* The store with nothing under the key.
WithoutKey(store, key) == [store EXCEPT ![key] = EmptyStore[key]]

\* C25: constructing over a store with a value that is not JSON under a key
\* gives the state that constructing over the store without that key
\* gives, and addReading succeeds on it.
C25_CorruptKeyTreatedAsAbsent ==
    \A key \in {"history", "settings"} :
        ~IsJson(localStorage[key]) =>
            LET built == constructor(localStorage, clock)
                absent == constructor(WithoutKey(localStorage, key), clock)
            IN (built.computable /\ absent.computable) =>
                   /\ built.temperatureHistory = absent.temperatureHistory
                   /\ built.currentTemperature = absent.currentTemperature
                   /\ built.averageTemperature = absent.averageTemperature
                   /\ built.decayWindowMinutes = absent.decayWindowMinutes
                   /\ built.sensitivity = absent.sensitivity
                   /\ ~addReading(built, 70, 9, "api").thrown

\* C26: a new instance constructed over the store the previous instance
\* wrote, holding readings and parameters, has the persisted
\* decayWindowMinutes and sensitivity and keeps every persisted reading
\* whose age is within the persisted window.
C26_RestoreKeepsWindow ==
    (/\ IsJson(localStorage.history)
     /\ IsJson(localStorage.settings)
     /\ \A i \in 1..Len(PersistedHistory) : ~IsNull(PersistedHistory[i])) =>
        LET built == constructor(localStorage, clock)
        IN built.computable =>
               /\ built.decayWindowMinutes = PersistedSettings.decayWindowMinutes
               /\ built.sensitivity = PersistedSettings.sensitivity
               /\ \A i \in 1..Len(PersistedHistory) :
                      clock - PersistedHistory[i].timestamp
                              <= PersistedSettings.decayWindowMinutes =>
                          \E j \in 1..Len(built.temperatureHistory) :
                              built.temperatureHistory[j] = PersistedHistory[i]

\* ------------------------------------------ properties of the notifications

\* C27: no step changes averageTemperature or the number of stored readings
\* without calling the listener, and the snapshot the listener gets last
\* shows the state the step leaves.
C27_EveryChangeNotified ==
    [][(\/ averageTemperature' # averageTemperature
        \/ Len(temperatureHistory') # Len(temperatureHistory)) =>
           /\ notified' # <<>>
           /\ notified'[Len(notified')].current = currentTemperature'
           /\ notified'[Len(notified')].average = averageTemperature'
           /\ notified'[Len(notified')].readingCount = Len(temperatureHistory')
      ]_vars

\* Arguments below, inside and above both ranges.
SetterArguments == {0, 6, 100}

\* v brought into [lo, hi].
Clamped(lo, hi, v) == IF v < lo THEN lo ELSE IF v > hi THEN hi ELSE v

\* The one snapshot the listener got is the state m.
NotifiedOnce(m) ==
    /\ Len(m.notified) = 1
    /\ m.notified[1].current = m.currentTemperature
    /\ m.notified[1].average = m.averageTemperature
    /\ m.notified[1].readingCount = Len(m.temperatureHistory)

\* C28: setSensitivity(n) and setDecayWindow(n) store the clamped argument,
\* leave the average recomputed under it and call the listener once;
\* setSensitivity removes no reading, setDecayWindow removes the readings
\* older than the new window and no other.
C28_SettersClampRecomputeNotify ==
    \A n \in SetterArguments :
        /\ LET m == setSensitivity(AggCur, n)
               set == [AggCur EXCEPT !.sensitivity = Clamped(1, 10, n)]
           IN m.computable =>
                  /\ m.sensitivity = Clamped(1, 10, n)
                  /\ m.decayWindowMinutes = decayWindowMinutes
                  /\ m.temperatureHistory = temperatureHistory
                  /\ m.averageTemperature =
                         calculateWeightedAverage(set).averageTemperature
                  /\ NotifiedOnce(m)
        /\ LET m == setDecayWindow(AggCur, n)
               kept == SelectSeq(temperatureHistory,
                                 LAMBDA reading :
                                     clock - reading.timestamp
                                         <= Clamped(5, 60, n))
               set == [AggCur EXCEPT !.decayWindowMinutes = Clamped(5, 60, n),
                                     !.temperatureHistory = kept]
           IN m.computable =>
                  /\ m.decayWindowMinutes = Clamped(5, 60, n)
                  /\ m.sensitivity = sensitivity
                  /\ m.temperatureHistory = kept
                  /\ m.averageTemperature =
                         calculateWeightedAverage(set).averageTemperature
                  /\ NotifiedOnce(m)

\* setDecayWindow has just run, and a narrower window would remove a reading
\* it kept.
C28_Witness ==
    /\ lastOp = Op("setDecayWindow", 2 * SweepPeriod, "ok")
    /\ notified # <<>>
    /\ Len(temperatureHistory) > 0
    /\ setDecayWindow(AggCur, 3).computable
    /\ Len(setDecayWindow(AggCur, 3).temperatureHistory)
           < Len(temperatureHistory)

\* C29: reset() empties the reading list and removes the persisted history,
\* leaves currentTemperature, averageTemperature, both parameters and the
\* persisted settings as they were, and calls the listener once with the
\* unchanged current and average and readingCount 0.
C29_ResetFrame ==
    LET m == reset(AggCur)
    IN /\ m.temperatureHistory = <<>>
       /\ ~m.localStorage.history.present
       /\ m.localStorage.settings = localStorage.settings
       /\ m.currentTemperature = currentTemperature
       /\ m.averageTemperature = averageTemperature
       /\ m.decayWindowMinutes = decayWindowMinutes
       /\ m.sensitivity = sensitivity
       /\ Len(m.notified) = 1
       /\ m.notified[1].current = currentTemperature
       /\ m.notified[1].average = averageTemperature
       /\ m.notified[1].readingCount = 0

\* reset has just run on an instance that had accepted readings and written
\* its settings.
C29_Witness ==
    /\ lastOp.op = "reset"
    /\ temperatureHistory = <<>>
    /\ averageTemperature > 0
    /\ currentTemperature > 0
    /\ ~localStorage.history.present
    /\ localStorage.settings.present
    /\ Len(notified) = 1

\* ------------------------------------------ properties of the settings surface

\* C30: after updateSetting, a successful importSettings or resetToDefaults
\* the recorder's intervalDuration, the aggregator's sensitivity and the
\* aggregator's decayWindowMinutes are the three settings, clamped.
C30_SettingsTakeEffect ==
    (\/ lastOp.op \in {"updateSetting", "resetToDefaults"}
     \/ lastOp = Op("importSettings", 0, "true")) =>
        /\ intervalDuration =
               Clamped(minDuration, maxDuration, settings.recordingInterval * 1000)
        /\ sensitivity = Clamped(1, 10, settings.temperatureSensitivity)
        /\ decayWindowMinutes = Clamped(5, 60, settings.decayWindowMinutes)

\* ------------------------------------ properties of the recorder's timers

\* C38: in every reachable state of the recorder an interval timer is active
\* if and only if isRecording is true, at most one interval timer is active,
\* and it is the one recordingInterval refers to.
C38_OneTimerIffRecording ==
    /\ isRecording <=> intervalTimers # {}
    /\ Cardinality(intervalTimers) <= 1
    /\ \A t \in intervalTimers : t.id = recordingInterval

C38_Witness ==
    /\ lastOp = Op("restartExpiry", 0, "ok")
    /\ isRecording /\ Cardinality(intervalTimers) = 1
    /\ chunksStarted = 2

SettlePending == \E i \in 1..Len(timeouts) : timeouts[i].kind = "settle"

\* C34: the interval tick finalizes the current chunk, starts none and arms
\* the 100 ms settle delay; the next chunk starts at the delay's expiry and
\* only if isRecording is true then; stopRecording() leaves isRecording false
\* and, while the delay runs, only the caller's startRecording() sets it
\* again, so a stop during the delay suppresses the next chunk start.
C34_SettleStartsOnlyWhileRecording ==
    [][/\ lastOp'.op = "intervalTick" =>
            /\ isRecording
            /\ mediaRecorder # 0 => recorders'[mediaRecorder] = "inactive"
            /\ chunksStarted' = chunksStarted
            /\ timeouts' = Append(timeouts, [kind |-> "settle", rem |-> SettleDelay])
       /\ lastOp'.op = "settleExpiry" =>
            /\ chunksStarted' > chunksStarted => isRecording
            /\ ~isRecording => /\ chunksStarted' = chunksStarted
                               /\ recorders' = recorders
            /\ isRecording' = isRecording
       /\ lastOp'.op = "stopRecording" => ~isRecording'
       /\ SettlePending =>
            /\ (~isRecording /\ isRecording') => lastOp'.op = "startRecording"
            /\ chunksStarted' > chunksStarted =>
                  lastOp'.op \in {"startRecording", "settleExpiry"}]_vars

C34_Witness ==
    /\ lastOp = Op("settleExpiry", 0, "skipped")
    /\ callerStopped /\ ~isRecording
    /\ mediaRecorder # 0 /\ mediaRecorder \in liveTracks
    /\ recorders[mediaRecorder] = "inactive"
    /\ chunksStarted = 1

\* C39: cleanup() while a chunk is being recorded finalizes that chunk, and
\* its 'stop' event hands the chunk to the onAudioReady callback that was
\* registered: no chunk finalized by cleanup() is dropped.
C39_CleanupDeliversChunk ==
    [][/\ (/\ lastOp'.op = "cleanup"
           /\ mediaRecorder # 0
           /\ recorders[mediaRecorder] = "recording") =>
              /\ recorders'[mediaRecorder] = "inactive"
              /\ stopEvents' = Append(stopEvents, mediaRecorder)
       /\ lastOp'.op = "onstop" =>
              /\ chunksEmitted' = chunksEmitted + 1
              /\ chunksDropped' = chunksDropped]_vars

\* ------------------------------------ properties of the reading list

IsSorted(history) ==
    \A i, j \in DOMAIN history :
        i < j => history[i].timestamp <= history[j].timestamp

\* The list after holds elements of the list before, in the order they had.
OrderPreserved(after, before) ==
    \E f \in [DOMAIN after -> DOMAIN before] :
        /\ \A i, j \in DOMAIN after : i < j => f[i] < f[j]
        /\ \A i \in DOMAIN after : after[i] = before[f[i]]

AllButLast(history) == SubSeq(history, 1, Len(history) - 1)

\* C32: the stored list is in acceptance order: an accepted reading is
\* stamped with the time of its acceptance and is the last element, the
\* elements before it are survivors of the list before in their old order,
\* pruning reorders nothing, and so the timestamps never decrease along the
\* list.
C32_InsertionOrder ==
    /\ IsSorted(temperatureHistory)
    /\ \A in \in ReadingInputs :
          \A m \in {addReading(AggCur, in[1], in[2], in[3])} :
             IF Accepted(m)
             THEN /\ m.temperatureHistory # <<>>
                  /\ m.temperatureHistory[Len(m.temperatureHistory)] =
                        Reading(Max(1, Min(100, in[1])), in[2], clock, in[3])
                  /\ OrderPreserved(AllButLast(m.temperatureHistory),
                                    temperatureHistory)
             ELSE m.temperatureHistory = temperatureHistory
    /\ \A m \in {cleanupOldReadings(AggCur)} :
          /\ OrderPreserved(m.temperatureHistory, temperatureHistory)
          /\ IsSorted(m.temperatureHistory)

\* A reading was accepted after an older one that the prune kept.
C32_Witness ==
    /\ lastOp = Op("addReading", 0, "accepted")
    /\ Len(temperatureHistory) = 2
    /\ temperatureHistory[1].timestamp < temperatureHistory[2].timestamp
    /\ temperatureHistory[2].timestamp = clock

\* The readings of m that its averaging loop counts with a positive weight.
ContributingOf(m) ==
    SelectSeq(InWindow(m, ValidReadings(m)), LAMBDA r : FinalWeight(m, r) > 0)

\* The average lies between the least and the greatest of the temperatures.
Between(average, readings) ==
    readings # <<>> =>
        \E i, j \in DOMAIN readings :
            /\ readings[i].temperature <= average
            /\ average <= readings[j].temperature

CurrentIsLast(m) ==
    m.temperatureHistory # <<>> =>
        m.currentTemperature =
            m.temperatureHistory[Len(m.temperatureHistory)].temperature

\* m under the parameters the constructor sets before it loads the store.
UnderDefaults(m) ==
    [m EXCEPT !.decayWindowMinutes = DefaultDecayWindow,
              !.sensitivity = DefaultSensitivity]

AnalysisFailedNow ==
    \/ lastOp.op = "analysis" /\ lastOp.result = "network"
    \/ lastOp.op = "onstop" /\ lastOp.result = "empty"

\* C31: when the analysis of a chunk fails (the request fails, or the chunk
\* is empty) exactly one reading (30, 0.1, "error") is given to addReading:
\* it is stored and persisted as the last reading and notified once, the
\* average is what a recomputation without it gives, recording goes on as it
\* was, and isProcessing is false afterwards.
C31_FailureInjectsNeutralReading ==
    [][AnalysisFailedNow' =>
          /\ temperatureHistory' =
                Append(temperatureHistory,
                       Reading(ErrorTemperature, ErrorConfidence, clock, "error"))
          /\ localStorage'.history = Stringify(temperatureHistory')
          /\ currentTemperature' = ErrorTemperature
          /\ Len(notified') = 1
          /\ averageTemperature' =
                calculateWeightedAverage(AggCur).averageTemperature
          /\ averageTemperature' = averageTemperature
          /\ ~isProcessing'
          /\ isRecording' = isRecording
          /\ appIsRecording' = appIsRecording
          /\ intervalTimers' = intervalTimers
          /\ recorders' = recorders]_vars

\* The request of a chunk failed while recording went on and an analysed
\* reading was in the average.
C31_Witness ==
    /\ lastOp = Op("analysis", 1, "network")
    /\ isRecording /\ appIsRecording /\ ~isProcessing
    /\ Len(temperatureHistory) = 2
    /\ temperatureHistory[1].temperature = 70
    /\ temperatureHistory[2] =
          Reading(ErrorTemperature, ErrorConfidence, clock, "error")
    /\ averageTemperature = 70

\* C35: every chunk the recorder hands to the application leads to exactly
\* one addReading call: its 'stop' event sends it for analysis or, the chunk
\* being empty, adds the fallback reading, whether or not the analysis of an
\* earlier chunk is outstanding, and every request's outcome adds one reading.
C35_EveryChunkYieldsReading ==
    [][/\ lastOp'.op = "onstop" =>
            \/ lastOp'.result = "sent" /\ inFlight' = inFlight + 1
            \/ lastOp'.result = "empty" /\ lastOp'.arg = 1
       /\ lastOp'.op = "analysis" =>
            /\ lastOp'.arg = 1
            /\ inFlight' = inFlight - 1]_vars

\* C36: at most one analysis request is outstanding, isProcessing is true
\* exactly while one is, the end of the request, success or failure, clears
\* it, and a chunk that arrives while it is clear is not skipped.
C36_OneAnalysisAtATime ==
    [][/\ inFlight' <= 1
       /\ isProcessing' <=> inFlight' = 1
       /\ lastOp'.op = "analysis" =>
            /\ ~isProcessing'
            /\ inFlight' = 0
       /\ (lastOp'.op = "onstop" /\ ~isProcessing) =>
            lastOp'.result # "skipped"]_vars

\* A second chunk was sent for analysis after the analysis of the first
\* failed.
C36_Witness ==
    /\ lastOp = Op("onstop", 0, "sent")
    /\ isProcessing /\ inFlight = 1
    /\ chunksEmitted = 2
    /\ Len(temperatureHistory) = 1
    /\ temperatureHistory[1].source = "error"

RestartPending == \E i \in 1..Len(timeouts) : timeouts[i].kind = "restart"

\* C37: while no initialize() is awaited and no restart of the recorder is
\* pending, the application's isRecording equals the recorder's, whatever
\* toggles, recordingInterval changes, recorder errors and resets came before.
C37_FlagsAgree ==
    (pendingInit = <<>> /\ ~RestartPending) => appIsRecording = isRecording

\* ------------------------------------------------ properties of the trend

\* The stored readings of the last 5 minutes, in list order.
RecentReadings ==
    SelectSeq(temperatureHistory, LAMBDA r : clock - r.timestamp <= 5)

\* n * den times the residual of reading i under the line of slope num/den
\* through the readings' centroid, x being the index from 0.
Residual(readings, i, num, den) ==
    Len(readings) * den * readings[i].temperature
    - (den * SumOf([k \in DOMAIN readings |-> readings[k].temperature])
       - num * SumOf([k \in DOMAIN readings |-> k - 1]))
    - Len(readings) * num * (i - 1)

\* num/den is the least-squares slope of temperature against index: the
\* residuals are orthogonal to the constant and to the index.
IsLeastSquaresSlope(readings, num, den) ==
    /\ den > 0
    /\ SumOf([i \in DOMAIN readings |-> Residual(readings, i, num, den)]) = 0
    /\ SumOf([i \in DOMAIN readings |->
                 (i - 1) * Residual(readings, i, num, den)]) = 0

\* C33: getTrend() looks at the stored readings of the last 5 minutes in
\* list order: fewer than 2 give stable, magnitude 0, confidence 0; else the
\* slope is the least-squares slope of temperature against index, direction
\* is rising iff slope > 0.5, falling iff slope < -0.5, else stable, the
\* magnitude is |slope| and confidence = min(1, |slope| / 10).
C33_TrendOfRecentReadings ==
    \A t \in {getTrend(AggCur)} :
       IF Len(RecentReadings) < 2
       THEN /\ t.direction = "stable"
            /\ t.magnitude.num = 0
            /\ t.confidence.num = 0
       ELSE /\ IsLeastSquaresSlope(RecentReadings, t.slope.num, t.slope.den)
            /\ t.direction = "rising" <=> 2 * t.slope.num > t.slope.den
            /\ t.direction = "falling" <=> 2 * t.slope.num < -t.slope.den
            /\ t.direction \in {"rising", "falling", "stable"}
            /\ t.magnitude.den > 0
            /\ t.magnitude.num * t.slope.den = Abs(t.slope.num) * t.magnitude.den
            /\ t.confidence.den > 0
            /\ IF Abs(t.slope.num) >= 10 * t.slope.den
               THEN t.confidence.num = t.confidence.den
               ELSE t.confidence.num * 10 * t.slope.den =
                       Abs(t.slope.num) * t.confidence.den

\* Three recent readings after an older one, their slope exactly 0.5: stable.
C33_Witness ==
    /\ lastOp.op = "getTrend"
    /\ Len(temperatureHistory) > Len(RecentReadings)
    /\ Len(RecentReadings) = 3
    /\ 2 * lastOp.result.slope.num = lastOp.result.slope.den
    /\ lastOp.result.direction = "stable"
====
